---- MODULE Spec2Model ----
(***************************************************************************)
(* Model of asyncdynamo/gendynamo.py: the GenDynamoTable value codec, key  *)
(* extraction, the per-table operations and their transport callbacks,     *)
(* the ScanChain / QueryChain builders and the GenDynamo batch calls.      *)
(*                                                                         *)
(* The store behind AsyncDynamoDB (asyncdynamo.AsyncDynamoDB, imported at  *)
(* gendynamo.py:12) is not part of the two source files; it is modelled    *)
(* from the specification's description of the store (sections 4.3, 6).    *)
(***************************************************************************)
EXTENDS Integers, Sequences, FiniteSets, TLC

VARIABLES
    store,      \* table name -> set of stored wire items (the hosted store)
    calls,      \* history of operation calls: arguments, request, outcome
    sc,         \* the ScanChain object under construction
    qc,         \* the QueryChain object under construction
    val,        \* the input drawn for the function under analysis: the native
                \* value handed to _pack_val, the argument of a batch call,
                \* or the dict handed to _extract_keys with what came of it
    packed,     \* codec: result of _pack_val
    unpacked    \* codec: result of _unpack_val

vars == <<store, calls, sc, qc, val, packed, unpacked>>

(***************************************************************************)
(* Bounds of the model.                                                    *)
(***************************************************************************)
MaxInt == 24        \* integers that are parsed back lie in -MaxInt..MaxInt
MaxCalls == 3       \* calls kept in the history of the concurrent specifications
MaxCounter == 2     \* largest stored counter where calls follow one another
MaxBatch == 27      \* largest number of items a table gets in one batch call

(***************************************************************************)
(* Native Python values.  t is the Python type, n the integer, s the       *)
(* string, m the members of a set (or of a list built from a set: the      *)
(* iteration order of a Python set is unspecified, so a list made from a   *)
(* set is kept as its members).                                            *)
(***************************************************************************)
V(t, n, s, m) == [t |-> t, n |-> n, s |-> s, m |-> m]
None == V("None", 0, "", {})
IntV(n) == V("int", n, "", {})
StrV(s) == V("str", 0, s, {})
UniV(s) == V("unicode", 0, s, {})
SetV(m) == V("set", 0, "", m)
ListV(m) == V("list", 0, "", m)

IsInt(v) == v.t = "int"                          \* isinstance(v, int)
IsStr(v) == v.t = "str"                          \* isinstance(v, str)
IsBasestring(v) == v.t \in {"str", "unicode"}    \* isinstance(v, basestring)
IsSet(v) == v.t = "set"                          \* isinstance(v, set)

\* Python's == on scalars: str and unicode compare by their characters
ScalarEq(a, b) ==
    \/ IsInt(a) /\ IsInt(b) /\ a.n = b.n
    \/ IsBasestring(a) /\ IsBasestring(b) /\ a.s = b.s
    \/ a.t = "None" /\ b.t = "None"

\* Python's == on the native values of the codec
PyEq(a, b) ==
    IF IsSet(a) /\ IsSet(b)
    THEN /\ \A x \in a.m : \E y \in b.m : ScalarEq(x, y)
         /\ \A y \in b.m : \E x \in a.m : ScalarEq(x, y)
    ELSE ScalarEq(a, b)

\* Python truthiness of a native value (if x:)
Truthy(v) ==
    CASE v.t = "None" -> FALSE
      [] v.t = "int" -> v.n # 0
      [] v.t \in {"str", "unicode"} -> v.s # ""
      [] OTHER -> v.m # {}

\* str(n) for an integer and int(s) for a decimal string
PyStr(n) == ToString(n)
PyInt(s) == CHOOSE n \in (0 - MaxInt)..MaxInt : ToString(n) = s

(***************************************************************************)
(* Results of functions that may raise.                                    *)
(***************************************************************************)
Ok(v) == [exc |-> "none", val |-> v]
Raise(e) == [exc |-> e, val |-> None]

\* a wire attribute value {keytype: val}: a dict with the single key tag
Wire(tag, v) == [tag |-> tag, val |-> v]

(***************************************************************************)
(* _pack_val deciding the type of a set by its first member alone, without *)
(* the loops over the other members.                                       *)
(***************************************************************************)
_pack_val_first_only(v, first) ==
    IF IsInt(v) THEN Ok(Wire("N", StrV(PyStr(v.n))))
    ELSE IF IsBasestring(v) THEN Ok(Wire("S", v))
    ELSE IF IsSet(v) THEN
        IF v.m = {} THEN Raise("ValueError")
        ELSE IF IsInt(first) THEN Raise("TypeError")
        ELSE IF IsStr(first) THEN Ok(Wire("SS", ListV(v.m)))
        ELSE Raise("ValueError")
    ELSE Raise("ValueError")

(***************************************************************************)
(* GenDynamoTable._pack_val.  first is the member the loop                 *)
(* "for item in val: ...; break" visits first.                             *)
(***************************************************************************)
_pack_val(v, first) ==
    IF IsInt(v) THEN Ok(Wire("N", StrV(PyStr(v.n))))
    ELSE IF IsBasestring(v) THEN Ok(Wire("S", v))
    ELSE IF IsSet(v) THEN
        IF v.m = {} THEN Raise("ValueError")
        ELSE IF ~IsInt(first) /\ ~IsStr(first) THEN Raise("ValueError")
        ELSE IF IsInt(first) THEN
            IF \E item \in v.m : ~IsInt(item) THEN Raise("ValueError")
            \* val = map(set, val): set(<int>) raises TypeError
            ELSE Raise("TypeError")
        ELSE
            IF \E item \in v.m : ~IsBasestring(item) THEN Raise("ValueError")
            ELSE Ok(Wire("SS", ListV(v.m)))
    ELSE Raise("ValueError")

(***************************************************************************)
(* GenDynamoTable._unpack_val.  "X" in val is a test on the keys of the    *)
(* dict; the "SN" branch reads val["SS"], a key the dict does not have.    *)
(***************************************************************************)
_unpack_val(w) ==
    IF w.tag = "N" THEN Ok(IntV(PyInt(w.val.s)))
    ELSE IF w.tag = "S" THEN Ok(w.val)
    ELSE IF w.tag = "SS" THEN Ok(SetV(w.val.m))
    ELSE IF w.tag = "SN" THEN Raise("KeyError")
    ELSE Raise("ValueError")

(***************************************************************************)
(* Python dicts are functions from attribute names to values.              *)
(***************************************************************************)
EmptyDict == [k \in {} |-> None]
DictPop(d, k) == [a \in DOMAIN d \ {k} |-> d[a]]            \* d after d.pop(k)
DictGet(d, k, default) == IF k \in DOMAIN d THEN d[k] ELSE default   \* d.get
Dict1(k, v) == [a \in {k} |-> v]

\* the members a set-valued attribute may yield first, one choice per attribute
Firsts(v) == IF IsSet(v) /\ v.m # {} THEN v.m ELSE {None}
FirstChoices(item) ==
    {f \in [DOMAIN item -> UNION {Firsts(item[k]) : k \in DOMAIN item}] :
        \A k \in DOMAIN item : f[k] \in Firsts(item[k])}

(***************************************************************************)
(* GenDynamoTable._pack and _unpack: the codec applied to every attribute; *)
(* the first attribute that fails raises.                                  *)
(***************************************************************************)
_pack(item, f) ==
    LET bad == {k \in DOMAIN item : _pack_val(item[k], f[k]).exc # "none"} IN
    IF bad # {}
    THEN [exc |-> _pack_val(item[CHOOSE k \in bad : TRUE],
                            f[CHOOSE k \in bad : TRUE]).exc,
          val |-> EmptyDict]
    ELSE [exc |-> "none",
          val |-> [k \in DOMAIN item |-> _pack_val(item[k], f[k]).val]]

_unpack(item) ==
    LET bad == {k \in DOMAIN item : _unpack_val(item[k]).exc # "none"} IN
    IF bad # {}
    THEN [exc |-> _unpack_val(item[CHOOSE k \in bad : TRUE]).exc,
          val |-> EmptyDict]
    ELSE [exc |-> "none",
          val |-> [k \in DOMAIN item |-> _unpack_val(item[k]).val]]

(***************************************************************************)
(* GenDynamoTable.__init__: the key schema of a table.  The database class *)
(* of the model declares two tables, one with a hash key only and one with *)
(* a hash key and a range key.                                             *)
(***************************************************************************)
NoName == "None"
GenDynamoTable(hash_key_type, hash_key_name, range_key_type, range_key_name) ==
    [hash_key_type |-> hash_key_type, hash_key_name |-> hash_key_name,
     range_key_type |-> range_key_type, range_key_name |-> range_key_name]

_tables == {"users", "events"}
Table(name) ==
    IF name = "users" THEN GenDynamoTable("int", "id", "None", NoName)
    ELSE GenDynamoTable("str", "owner", "int", "ts")

(***************************************************************************)
(* GenDynamoTable._extract_keys: works on a copy of data; returns the hash *)
(* key, the range key (None without a range key) and the remaining dict.   *)
(***************************************************************************)
MissingHashKey == "KeyError(hash key)"
MissingRangeKey == "KeyError(range key not provided)"
TypeMismatch == "ValueError(key type)"
Extracted(e, h, r, rest) == [exc |-> e, hash_key |-> h, range_key |-> r, rest |-> rest]
ExtractFail(e) == Extracted(e, None, None, EmptyDict)

_extract_range(self, hash_key, data) ==
    IF self.range_key_name \notin DOMAIN data THEN ExtractFail(MissingRangeKey)
    ELSE LET range_key == data[self.range_key_name]
             rest == DictPop(data, self.range_key_name) IN
        IF self.range_key_type = "int" /\ ~IsInt(range_key)
        THEN ExtractFail(TypeMismatch)
        ELSE IF self.range_key_type = "str" /\ ~IsBasestring(range_key)
        THEN ExtractFail(TypeMismatch)
        ELSE Extracted("none", hash_key, range_key, rest)

\* _extract_keys without the type checks on the hash key
_extract_keys_untyped(self, data) ==
    IF self.hash_key_name = NoName THEN ExtractFail(MissingHashKey)
    ELSE IF self.hash_key_name \notin DOMAIN data THEN ExtractFail(MissingHashKey)
    ELSE IF self.range_key_name # NoName
    THEN _extract_range(self, data[self.hash_key_name], DictPop(data, self.hash_key_name))
    ELSE Extracted("none", data[self.hash_key_name], None, DictPop(data, self.hash_key_name))

_extract_keys(self, data) ==
    IF self.hash_key_name = NoName THEN ExtractFail(MissingHashKey)
    \* data.pop(self.hash_key_name) raises KeyError on an absent key
    ELSE IF self.hash_key_name \notin DOMAIN data THEN ExtractFail(MissingHashKey)
    ELSE LET hash_key == data[self.hash_key_name]
             rest == DictPop(data, self.hash_key_name) IN
        IF self.hash_key_type = "int" /\ ~IsInt(hash_key)
        THEN ExtractFail(TypeMismatch)
        ELSE IF self.hash_key_type = "str" /\ ~IsBasestring(hash_key)
        THEN ExtractFail(TypeMismatch)
        ELSE IF self.range_key_name # NoName
        THEN _extract_range(self, hash_key, rest)
        ELSE Extracted("none", hash_key, None, rest)

(***************************************************************************)
(* GenDynamoTable._extract_keys on dict objects.  A heap maps the address  *)
(* of a dict to its entries; Arg is the address of the dict the caller     *)
(* passed.  "data = data.copy()" binds the local name data to a new dict   *)
(* at the address Copy, and every data.pop acts on the dict data is bound  *)
(* to.  The result is the heap at the return or the raise, with the        *)
(* address data is bound to by then.                                       *)
(***************************************************************************)
Arg == "arg"
Copy == "copy"
Bound(heap, data) == [heap |-> heap, data |-> data]
dict_copy(heap, a) == Bound(heap @@ (Copy :> heap[a]), Copy)
dict_pop(heap, a, k) == [heap EXCEPT ![a] = DictPop(@, k)]

\* the statements of _extract_keys after the copy
_extract_keys_pops(self, heap, data) ==
    IF self.hash_key_name = NoName THEN Bound(heap, data)
    \* a pop that raises KeyError leaves the dict as it was
    ELSE IF self.hash_key_name \notin DOMAIN heap[data] THEN Bound(heap, data)
    ELSE LET hash_key == heap[data][self.hash_key_name]
             popped == dict_pop(heap, data, self.hash_key_name) IN
        IF self.hash_key_type = "int" /\ ~IsInt(hash_key)
        THEN Bound(popped, data)
        ELSE IF self.hash_key_type = "str" /\ ~IsBasestring(hash_key)
        THEN Bound(popped, data)
        ELSE IF self.range_key_name # NoName
        THEN IF self.range_key_name \notin DOMAIN popped[data]
             THEN Bound(popped, data)
             \* the type checks on the range key follow its pop
             ELSE Bound(dict_pop(popped, data, self.range_key_name), data)
        ELSE Bound(popped, data)

\* _extract_keys without "data = data.copy()": the pops act on the dict
\* the caller passed
_extract_keys_in_place(self, heap) == _extract_keys_pops(self, heap, Arg)

_extract_keys_dicts(self, heap) ==
    LET copied == dict_copy(heap, Arg) IN
    _extract_keys_pops(self, copied.heap, copied.data)

(***************************************************************************)
(* GenDynamoTable._key: the wire key. NoWire stands for an absent         *)
(* RangeKeyElement.  Keys are scalars, so _pack_val needs no first member. *)
(***************************************************************************)
NoWire == Wire("absent", None)
_key(hash_key, range_key) ==
    LET h == _pack_val(hash_key, None)
        r == _pack_val(range_key, None) IN
    IF h.exc # "none" THEN [exc |-> h.exc, val |-> EmptyDict]
    ELSE IF range_key # None
    THEN IF r.exc # "none" THEN [exc |-> r.exc, val |-> EmptyDict]
         ELSE [exc |-> "none",
               val |-> [HashKeyElement |-> h.val, RangeKeyElement |-> r.val]]
    ELSE [exc |-> "none",
          val |-> [HashKeyElement |-> h.val, RangeKeyElement |-> NoWire]]

(***************************************************************************)
(* Responses of the transport: None or a dict; the error is None or an     *)
(* error object.  __type strings are kept whole; the substring test of     *)
(* _check_error is a test against the names that hold the marker.          *)
(***************************************************************************)
NoneResponse == [none |-> TRUE, d |-> EmptyDict]
Response(d) == [none |-> FALSE, d |-> d]
ConditionalType == "com.amazonaws.dynamodb.v20111205#ConditionalCheckFailedException"
InternalType == "com.amazon.coral.service#InternalFailure"
HasConditionalMarker(t) == t = ConditionalType

\* GenDynamoTable._check_error: the exception class raised, "none" if none
_check_error_cls(cls, r) ==
    IF cls = "None"
    THEN IF HasConditionalMarker(DictGet(r, "__type", ""))
         THEN "ConcurrentUpdateException"
         ELSE "DynamoException"
    ELSE cls

_check_error(response, error, cls) ==
    IF error
    THEN LET r == IF response.none THEN EmptyDict ELSE response.d IN
         _check_error_cls(cls, r)
    ELSE "none"

(***************************************************************************)
(* The synchronous part of every operation: it either raises to the caller *)
(* or builds the request that the returned gen.Task hands to the           *)
(* transport.                                                              *)
(***************************************************************************)
NoReq == [op |-> "none"]
Sync(e) == [exc |-> e, req |-> NoReq]
Dispatch(r) == [exc |-> "none", req |-> r]

NotSupported == "KeyError(arguments are not supported)"
LimitExceeded == "RuntimeError(accepts not more than 25 items)"
UnknownTable == "RuntimeError(unknown table)"
NoSuchAttribute == "AttributeError(no such table attribute)"
CantBeHandled == "RuntimeError(can't be handled by multi_delete)"
NotConfigured == "RuntimeError(QueryChain not configured)"

\* truthiness of a dict: non-empty
DictTruthy(d) == DOMAIN d # {}

\* GetMixin.get / GetMixin._get
get(t, kwargs) ==
    LET e == _extract_keys(Table(t), kwargs)
        key == _key(e.hash_key, e.range_key) IN
    IF e.exc # "none" THEN Sync(e.exc)
    ELSE IF DictTruthy(e.rest) THEN Sync(NotSupported)
    ELSE IF key.exc # "none" THEN Sync(key.exc)
    ELSE Dispatch([op |-> "GetItem", table |-> t, key |-> key.val])

\* BatchGetMixin.batch_get / _batch_get: items is a sequence of dicts
batch_get_exc(t, item) ==
    LET e == _extract_keys(Table(t), item) IN
    IF e.exc # "none" THEN e.exc
    ELSE IF DictTruthy(e.rest) THEN NotSupported
    ELSE _key(e.hash_key, e.range_key).exc

batch_get(t, items) ==
    LET bad == {i \in 1..Len(items) : batch_get_exc(t, items[i]) # "none"}
        first == CHOOSE i \in bad : \A j \in bad : i <= j
        keys == [i \in 1..Len(items) |->
                    _key(_extract_keys(Table(t), items[i]).hash_key,
                         _extract_keys(Table(t), items[i]).range_key).val] IN
    IF bad # {} THEN Sync(batch_get_exc(t, items[first]))
    ELSE Dispatch([op |-> "BatchGetItem", table |-> t, Keys |-> keys])

\* the update_data of increment and update: one action per remaining attribute
UpdateData(rest, f, action) ==
    LET bad == {k \in DOMAIN rest : _pack_val(rest[k], f[k]).exc # "none"} IN
    IF bad # {}
    THEN [exc |-> _pack_val(rest[CHOOSE k \in bad : TRUE],
                            f[CHOOSE k \in bad : TRUE]).exc,
          val |-> EmptyDict]
    ELSE [exc |-> "none",
          val |-> [k \in DOMAIN rest |->
                      [Value |-> _pack_val(rest[k], f[k]).val, Action |-> action]]]

IncrementAction_put == "PUT"
IncrementAction == "ADD"
UpdateAction == "PUT"

UpdateItem(t, kwargs, f, action) ==
    LET e == _extract_keys(Table(t), kwargs)
        key == _key(e.hash_key, e.range_key)
        update_data == UpdateData(e.rest, f, action) IN
    IF e.exc # "none" THEN Sync(e.exc)
    ELSE IF key.exc # "none" THEN Sync(key.exc)
    ELSE IF update_data.exc # "none" THEN Sync(update_data.exc)
    ELSE Dispatch([op |-> "UpdateItem", table |-> t, key |-> key.val,
                   update_data |-> update_data.val])

\* IncrementMixin.increment / _increment
increment(t, kwargs, f) == UpdateItem(t, kwargs, f, IncrementAction)

\* UpdateMixin.update / _update
update(t, kwargs, f) == UpdateItem(t, kwargs, f, UpdateAction)

\* an entry of an "expected" map
MustNotExist == [Exists |-> FALSE, Value |-> NoWire]
MustEqual(w) == [Exists |-> TRUE, Value |-> w]

\* put without a precondition
put_expected_nothing(self) == EmptyDict

\* PutMixin.put / _put
put_expected(self) ==
    IF self.range_key_name # NoName
    THEN Dict1(self.range_key_name, MustNotExist)
    ELSE Dict1(self.hash_key_name, MustNotExist)

put(t, kwargs, f) ==
    LET e == _extract_keys(Table(t), kwargs)
        data == _pack(kwargs, f) IN
    IF e.exc # "none" THEN Sync(e.exc)
    ELSE IF data.exc # "none" THEN Sync(data.exc)
    ELSE Dispatch([op |-> "PutItem", table |-> t, item |-> data.val,
                   expected |-> put_expected(Table(t))])

\* RemoveMixin.remove / _remove: expected is built from all of kwargs
remove_expected(kwargs, f) ==
    LET bad == {k \in DOMAIN kwargs : _pack_val(kwargs[k], f[k]).exc # "none"} IN
    IF bad # {}
    THEN [exc |-> _pack_val(kwargs[CHOOSE k \in bad : TRUE],
                            f[CHOOSE k \in bad : TRUE]).exc,
          val |-> EmptyDict]
    ELSE [exc |-> "none",
          val |-> [k \in DOMAIN kwargs |->
                      MustEqual(_pack_val(kwargs[k], f[k]).val)]]

remove(t, kwargs, f) ==
    LET e == _extract_keys(Table(t), kwargs)
        key == _key(e.hash_key, e.range_key)
        expected == remove_expected(kwargs, f) IN
    IF e.exc # "none" THEN Sync(e.exc)
    ELSE IF DictTruthy(e.rest) THEN Sync(NotSupported)
    ELSE IF key.exc # "none" THEN Sync(key.exc)
    ELSE IF expected.exc # "none" THEN Sync(expected.exc)
    ELSE Dispatch([op |-> "DeleteItem", table |-> t, key |-> key.val,
                   expected |-> expected.val])

(***************************************************************************)
(* Batch writes.  A batch is a sequence of dicts; fs gives, per item, the  *)
(* first members of its set-valued attributes.                             *)
(***************************************************************************)
BatchLimit == 25

PackAll(items, fs) ==
    LET bad == {i \in 1..Len(items) : _pack(items[i], fs[i]).exc # "none"}
        first == CHOOSE i \in bad : \A j \in bad : i <= j IN
    IF bad # {}
    THEN [exc |-> _pack(items[first], fs[first]).exc, val |-> <<>>]
    ELSE [exc |-> "none",
          val |-> [i \in 1..Len(items) |-> _pack(items[i], fs[i]).val]]

PutRequest(item) == [kind |-> "PutRequest", Item |-> item]
DeleteRequest(key) == [kind |-> "DeleteRequest", Key |-> key]

\* mass_write without the test on len(items)
mass_write_unlimited(t, items, fs) ==
    LET p == PackAll(items, fs) IN
    IF p.exc # "none" THEN Sync(p.exc)
    ELSE Dispatch([op |-> "BatchWriteItem",
                   RequestItems |->
                       Dict1(t, [i \in 1..Len(p.val) |-> PutRequest(p.val[i])])])

\* MassWriteMixin.mass_write / _mass_write
mass_write(t, items, fs) ==
    LET p == PackAll(items, fs) IN
    IF Len(items) > BatchLimit THEN Sync(LimitExceeded)
    ELSE IF p.exc # "none" THEN Sync(p.exc)
    ELSE Dispatch([op |-> "BatchWriteItem",
                   RequestItems |->
                       Dict1(t, [i \in 1..Len(p.val) |-> PutRequest(p.val[i])])])

\* multi_write with the limit tested on each table's batch, not on the sum
RECURSIVE multi_write_loop_per_table(_, _, _, _, _, _)
multi_write_loop_per_table(tables, order, fs, i, data, count) ==
    IF i > Len(order)
    THEN Dispatch([op |-> "BatchWriteItem", RequestItems |-> data])
    ELSE LET table == order[i]
             p == PackAll(tables[table], fs[table])
             puts == [j \in 1..Len(p.val) |-> PutRequest(p.val[j])] IN
         IF table \notin _tables THEN Sync(UnknownTable)
         ELSE IF p.exc # "none" THEN Sync(p.exc)
         ELSE IF Len(puts) > BatchLimit THEN Sync(LimitExceeded)
         ELSE multi_write_loop_per_table(tables, order, fs, i + 1,
                                         data @@ Dict1(table, puts), count)

\* GenDynamo.multi_write / _multi_write: order is the order in which
\* tables.items() yields the named tables
RECURSIVE multi_write_loop(_, _, _, _, _, _)
multi_write_loop(tables, order, fs, i, data, count) ==
    IF i > Len(order)
    THEN Dispatch([op |-> "BatchWriteItem", RequestItems |-> data])
    ELSE LET table == order[i]
             p == PackAll(tables[table], fs[table])
             puts == [j \in 1..Len(p.val) |-> PutRequest(p.val[j])]
             n == count + Len(puts) IN
         IF table \notin _tables THEN Sync(UnknownTable)
         ELSE IF p.exc # "none" THEN Sync(p.exc)
         ELSE IF n > BatchLimit THEN Sync(LimitExceeded)
         ELSE multi_write_loop(tables, order, fs, i + 1,
                               data @@ Dict1(table, puts), n)

multi_write(tables, order, fs) ==
    multi_write_loop(tables, order, fs, 1, EmptyDict, 0)

\* the inner loop of multi_delete without its test on rest
RECURSIVE multi_delete_items_any_rest(_, _, _, _, _)
multi_delete_items_any_rest(table, items, j, del_requests, count) ==
    IF j > Len(items)
    THEN [exc |-> "none", val |-> del_requests, count |-> count]
    ELSE LET e == _extract_keys(Table(table), items[j])
             key == _key(e.hash_key, e.range_key) IN
         IF e.exc # "none" THEN [exc |-> e.exc, val |-> <<>>, count |-> count]
         ELSE IF key.exc # "none"
         THEN [exc |-> key.exc, val |-> <<>>, count |-> count]
         ELSE IF count + 1 > BatchLimit
         THEN [exc |-> LimitExceeded, val |-> <<>>, count |-> count + 1]
         ELSE multi_delete_items_any_rest(table, items, j + 1,
                                          Append(del_requests, DeleteRequest(key.val)),
                                          count + 1)

\* GenDynamo.multi_delete: the inner loop over the items of one table
RECURSIVE multi_delete_items(_, _, _, _, _)
multi_delete_items(table, items, j, del_requests, count) ==
    IF j > Len(items)
    THEN [exc |-> "none", val |-> del_requests, count |-> count]
    ELSE LET e == _extract_keys(Table(table), items[j])
             key == _key(e.hash_key, e.range_key) IN
         IF e.exc # "none" THEN [exc |-> e.exc, val |-> <<>>, count |-> count]
         ELSE IF DictTruthy(e.rest)
         THEN [exc |-> CantBeHandled, val |-> <<>>, count |-> count]
         ELSE IF key.exc # "none"
         THEN [exc |-> key.exc, val |-> <<>>, count |-> count]
         ELSE IF count + 1 > BatchLimit
         THEN [exc |-> LimitExceeded, val |-> <<>>, count |-> count + 1]
         ELSE multi_delete_items(table, items, j + 1,
                                 Append(del_requests, DeleteRequest(key.val)),
                                 count + 1)

RECURSIVE multi_delete_loop(_, _, _, _, _)
multi_delete_loop(tables, order, i, data, count) ==
    IF i > Len(order)
    THEN Dispatch([op |-> "BatchWriteItem", RequestItems |-> data])
    ELSE LET table == order[i]
             d == multi_delete_items(table, tables[table], 1, <<>>, count) IN
         \* tbl = getattr(self, table)
         IF table \notin _tables THEN Sync(NoSuchAttribute)
         ELSE IF d.exc # "none" THEN Sync(d.exc)
         ELSE multi_delete_loop(tables, order, i + 1,
                                data @@ Dict1(table, d.val), d.count)

multi_delete(tables, order) == multi_delete_loop(tables, order, 1, EmptyDict, 0)

(***************************************************************************)
(* ScanChain and QueryChain: the builder objects.  _comp is "None" until   *)
(* gt or lt is called; _scan, _range, _key and _limit are native values.   *)
(***************************************************************************)
NoChain == [cls |-> "none"]

\* ScanChain.__init__
ScanChain(table_proxy) ==
    [cls |-> "ScanChain", _table_proxy |-> table_proxy, _forward |-> TRUE,
     _scan |-> None, _comp |-> "None", _limit |-> None]

\* ScanChain.gt, lt, asc, desc, limit
ScanChain_gt(self, v) == [self EXCEPT !._comp = "GT", !._scan = v]
ScanChain_lt(self, v) == [self EXCEPT !._comp = "LT", !._scan = v]
ScanChain_asc(self) == [self EXCEPT !._forward = TRUE]
ScanChain_desc(self) == [self EXCEPT !._forward = FALSE]
\* limit that keeps the first limit it was given
ScanChain_limit_once(self, n) == IF self._limit = None THEN [self EXCEPT !._limit = n] ELSE self
ScanChain_limit(self, n) == [self EXCEPT !._limit = n]

NoFilter == [AttributeValueList |-> <<>>, ComparisonOperator |-> "None"]
Condition(w, comp) == [AttributeValueList |-> <<w>>, ComparisonOperator |-> comp]

\* the test "if self._scan:" of ScanChain.__call__
ScanFilterSet(self) == Truthy(self._scan)

\* ScanChain.__call__
ScanChain_call(self, first) ==
    LET p == _pack_val(self._scan, first) IN
    IF ScanFilterSet(self)
    THEN IF p.exc # "none" THEN Sync(p.exc)
         ELSE Dispatch([op |-> "Scan", table |-> self._table_proxy,
                        limit |-> self._limit,
                        scan_filter |-> Condition(p.val, self._comp)])
    ELSE Dispatch([op |-> "Scan", table |-> self._table_proxy,
                   limit |-> self._limit, scan_filter |-> NoFilter])

\* QueryChain.__init__
QueryChain(table_proxy, key) ==
    [cls |-> "QueryChain", _table_proxy |-> table_proxy, _forward |-> TRUE,
     _key |-> key, _range |-> None, _comp |-> "None", _limit |-> None]

\* QueryChain.gt, lt, asc, desc, limit
QueryChain_gt(self, v) == [self EXCEPT !._comp = "GT", !._range = v]
\* lt written as a copy of gt
QueryChain_lt_as_gt(self, v) == [self EXCEPT !._comp = "GT", !._range = v]
QueryChain_lt(self, v) == [self EXCEPT !._comp = "LT", !._range = v]
QueryChain_asc(self) == [self EXCEPT !._forward = TRUE]
QueryChain_desc(self) == [self EXCEPT !._forward = FALSE]
QueryChain_limit(self, n) == [self EXCEPT !._limit = n]

\* the test written with truthiness, as ScanChain.__call__ does
QueryUnconfigured_truthy(self) ==
    ~Truthy(self._key) \/ ~Truthy(self._range) \/ self._comp = "None"

\* the test "None in [self._key, self._range, self._comp]": list membership
\* compares with ==, and only None equals None
QueryUnconfigured(self) ==
    self._key = None \/ self._range = None \/ self._comp = "None"

\* QueryChain.__call__
QueryChain_call(self, first) ==
    LET key == _pack_val(self._key, None)
        r == _pack_val(self._range, first) IN
    IF QueryUnconfigured(self) THEN Sync(NotConfigured)
    ELSE IF key.exc # "none" THEN Sync(key.exc)
    ELSE IF r.exc # "none" THEN Sync(r.exc)
    ELSE Dispatch([op |-> "Query", table |-> self._table_proxy,
                   key |-> key.val,
                   range_key_conditions |-> Condition(r.val, self._comp),
                   scan_index_forward |-> self._forward,
                   limit |-> self._limit])

(***************************************************************************)
(* The transport callbacks.  Each yields the events it delivers to the     *)
(* caller's handle: a call of the caller's callback with a value, or an    *)
(* exception raised out of the callback, which the gen engine throws into  *)
(* the caller (the failure path of the handle).                            *)
(***************************************************************************)
CallbackEv(v) == [kind |-> "callback", value |-> v]
RaiseEv(c) == [kind |-> "raise", cls |-> c]

\* map(self._unpack, items)
UnpackAll(items) ==
    LET bad == {i \in 1..Len(items) : _unpack(items[i]).exc # "none"}
        first == CHOOSE i \in bad : \A j \in bad : i <= j IN
    IF bad # {}
    THEN [exc |-> _unpack(items[first]).exc, val |-> <<>>]
    ELSE [exc |-> "none",
          val |-> [i \in 1..Len(items) |-> _unpack(items[i]).val]]

\* callback(self._unpack(x)) where x is a dict, or None when the key is absent
UnpackThenCallback(d, k) ==
    IF k \notin DOMAIN d THEN <<RaiseEv("AttributeError")>>
    ELSE IF _unpack(d[k]).exc # "none" THEN <<RaiseEv(_unpack(d[k]).exc)>>
    ELSE <<CallbackEv(_unpack(d[k]).val)>>

\* callback(map(self._unpack, x)) where x is a list, or None when absent
UnpackAllThenCallback(d, k) ==
    IF k \notin DOMAIN d THEN <<RaiseEv("TypeError")>>
    ELSE IF UnpackAll(d[k]).exc # "none" THEN <<RaiseEv(UnpackAll(d[k]).exc)>>
    ELSE <<CallbackEv(UnpackAll(d[k]).val)>>

\* _get_callback without its "else": the callback runs for the item and again
_get_callback_no_else(response, error) ==
    LET c == _check_error(response, error, "None") IN
    IF c # "none" THEN <<RaiseEv(c)>>
    ELSE IF response.none THEN <<RaiseEv("TypeError")>>
    ELSE IF "Item" \in DOMAIN response.d
    THEN UnpackThenCallback(response.d, "Item") \o <<CallbackEv(None)>>
    ELSE <<CallbackEv(None)>>

\* _get_callback reading response["Item"] without the test for its presence
_get_callback_strict(response, error) ==
    LET c == _check_error(response, error, "None") IN
    IF c # "none" THEN <<RaiseEv(c)>>
    ELSE IF response.none THEN <<RaiseEv("TypeError")>>
    ELSE IF "Item" \in DOMAIN response.d
    THEN UnpackThenCallback(response.d, "Item")
    ELSE <<RaiseEv("KeyError")>>

\* GetMixin._get_callback
_get_callback(response, error) ==
    LET c == _check_error(response, error, "None") IN
    IF c # "none" THEN <<RaiseEv(c)>>
    ELSE IF response.none THEN <<RaiseEv("TypeError")>>
    ELSE IF "Item" \in DOMAIN response.d
    THEN UnpackThenCallback(response.d, "Item")
    ELSE <<CallbackEv(None)>>

\* BatchGetMixin._batch_get_callback; the model keeps the list found under
\* Responses / <table> / Items under the key Items
_batch_get_callback(response, error) ==
    LET c == _check_error(response, error, "None") IN
    IF c # "none" THEN <<RaiseEv(c)>>
    ELSE IF response.none \/ "Items" \notin DOMAIN response.d
    THEN <<RaiseEv("AttributeError")>>
    ELSE UnpackAllThenCallback(response.d, "Items")

\* IncrementMixin._increment_callback
_increment_callback(response, error) ==
    LET c == _check_error(response, error, "None") IN
    IF c # "none" THEN <<RaiseEv(c)>>
    ELSE IF response.none THEN <<RaiseEv("AttributeError")>>
    ELSE UnpackThenCallback(response.d, "Attributes")

\* UpdateMixin._update_callback
_update_callback(response, error) ==
    LET c == _check_error(response, error, "None") IN
    IF c # "none" THEN <<RaiseEv(c)>>
    ELSE IF response.none THEN <<RaiseEv("AttributeError")>>
    ELSE UnpackThenCallback(response.d, "Attributes")

\* PutMixin._put_callback
_put_callback(response, error) ==
    LET c == _check_error(response, error, "PutException") IN
    IF c # "none" THEN <<RaiseEv(c)>>
    ELSE IF response.none THEN <<RaiseEv("AttributeError")>>
    ELSE <<CallbackEv(DictGet(response.d, "ConsumedCapacityUnits", None))>>

\* RemoveMixin._remove_callback
_remove_callback(response, error) ==
    LET c == _check_error(response, error, "RemoveException") IN
    IF c # "none" THEN <<RaiseEv(c)>>
    ELSE IF response.none THEN <<RaiseEv("AttributeError")>>
    ELSE <<CallbackEv(DictGet(response.d, "ConsumedCapacityUnits", None))>>

\* MassWriteMixin._mass_write_callback
_mass_write_callback(response, error) ==
    LET c == _check_error(response, error, "None") IN
    IF c # "none" THEN <<RaiseEv(c)>>
    ELSE IF response.none THEN <<RaiseEv("AttributeError")>>
    ELSE <<CallbackEv(DictGet(response.d, "Responses", EmptyDict))>>

\* ScanMixin._scan_callback
_scan_callback(response, error) ==
    LET c == _check_error(response, error, "ScanException") IN
    IF c # "none" THEN <<RaiseEv(c)>>
    ELSE IF response.none THEN <<RaiseEv("AttributeError")>>
    ELSE UnpackAllThenCallback(response.d, "Items")

\* QueryMixin._query_callback
_query_callback(response, error) ==
    LET c == _check_error(response, error, "QueryException") IN
    IF c # "none" THEN <<RaiseEv(c)>>
    ELSE IF response.none THEN <<RaiseEv("AttributeError")>>
    ELSE UnpackAllThenCallback(response.d, "Items")

\* GenDynamo._multi_write_callback: the error is not looked at
_multi_write_callback(response, error) ==
    IF response.none THEN <<RaiseEv("AttributeError")>>
    ELSE <<CallbackEv(DictGet(response.d, "Responses", EmptyDict))>>

\* the callback each operation binds with functools.partial
CallbackOf(op, response, error) ==
    CASE op = "get" -> _get_callback(response, error)
      [] op = "batch_get" -> _batch_get_callback(response, error)
      [] op = "increment" -> _increment_callback(response, error)
      [] op = "update" -> _update_callback(response, error)
      [] op = "put" -> _put_callback(response, error)
      [] op = "remove" -> _remove_callback(response, error)
      [] op = "mass_write" -> _mass_write_callback(response, error)
      [] op = "scan" -> _scan_callback(response, error)
      [] op = "query" -> _query_callback(response, error)
      [] OTHER -> _multi_write_callback(response, error)

(***************************************************************************)
(* The store and the transport in front of it (AsyncDynamoDB), modelled    *)
(* from the specification: sections 4.3 (what each operation resolves to), *)
(* 4.5 (condition-check failures) and 6 (wire operations, JSON bodies).    *)
(***************************************************************************)
\* a JSON body carries no str/unicode distinction: decoded strings are unicode
JsonVal(v) ==
    IF v.t = "str" THEN UniV(v.s)
    ELSE IF v.t = "list" THEN ListV({IF x.t = "str" THEN UniV(x.s) ELSE x : x \in v.m})
    ELSE v
JsonWire(w) == Wire(w.tag, JsonVal(w.val))
JsonItem(item) == [k \in DOMAIN item |-> JsonWire(item[k])]
JsonKey(key) == [HashKeyElement |-> JsonWire(key.HashKeyElement),
                 RangeKeyElement |-> JsonWire(key.RangeKeyElement)]

ValidationType == "com.amazon.coral.validate#ValidationException"
ErrorBody(type, message) == Response([__type |-> type, message |-> message])
CapacityUnits == IntV(1)

Outcome(st, response, error) == [store |-> st, response |-> response, error |-> error]
Rejected(st, type, message) == Outcome(st, ErrorBody(type, message), TRUE)

\* the key of a stored item under the schema of its table
\* the store rejects an item without its key attributes or with a key of
\* another type than the table was created with
TagOf(type) == IF type = "int" THEN "N" ELSE "S"
HasKeys(t, item) ==
    /\ Table(t).hash_key_name \in DOMAIN item
    /\ item[Table(t).hash_key_name].tag = TagOf(Table(t).hash_key_type)
    /\ Table(t).range_key_name # NoName =>
          /\ Table(t).range_key_name \in DOMAIN item
          /\ item[Table(t).range_key_name].tag = TagOf(Table(t).range_key_type)
KeyOfItem(t, item) ==
    [HashKeyElement |-> item[Table(t).hash_key_name],
     RangeKeyElement |-> IF Table(t).range_key_name # NoName
                         THEN item[Table(t).range_key_name] ELSE NoWire]
Lookup(st, t, key) == {it \in st[t] : KeyOfItem(t, it) = key}
KeyAttrs(t, key) ==
    IF Table(t).range_key_name # NoName
    THEN Dict1(Table(t).hash_key_name, key.HashKeyElement)
         @@ Dict1(Table(t).range_key_name, key.RangeKeyElement)
    ELSE Dict1(Table(t).hash_key_name, key.HashKeyElement)

\* the preconditions of a conditional write against the item now stored
ExpectedHolds(existing, expected) ==
    \A a \in DOMAIN expected :
        IF expected[a].Exists
        THEN \E it \in existing :
                a \in DOMAIN it /\ it[a] = JsonWire(expected[a].Value)
        ELSE \A it \in existing : a \notin DOMAIN it

StorePut(st, req) ==
    LET item == JsonItem(req.item)
        existing == IF HasKeys(req.table, item)
                    THEN Lookup(st, req.table, KeyOfItem(req.table, item)) ELSE {} IN
    IF ~HasKeys(req.table, item)
    THEN Rejected(st, ValidationType, "missing key")
    ELSE IF ~ExpectedHolds(existing, req.expected)
    THEN Rejected(st, ConditionalType, "The conditional request failed")
    ELSE Outcome([st EXCEPT ![req.table] = (@ \ existing) \cup {item}],
                 Response([ConsumedCapacityUnits |-> CapacityUnits]), FALSE)

StoreDelete(st, req) ==
    LET existing == Lookup(st, req.table, JsonKey(req.key)) IN
    IF ~ExpectedHolds(existing, req.expected)
    THEN Rejected(st, ConditionalType, "The conditional request failed")
    ELSE Outcome([st EXCEPT ![req.table] = @ \ existing],
                 Response([ConsumedCapacityUnits |-> CapacityUnits]), FALSE)

StoreGet(st, req) ==
    LET existing == Lookup(st, req.table, JsonKey(req.key)) IN
    IF existing = {}
    THEN Outcome(st, Response([ConsumedCapacityUnits |-> CapacityUnits]), FALSE)
    ELSE Outcome(st, Response([Item |-> CHOOSE it \in existing : TRUE,
                               ConsumedCapacityUnits |-> CapacityUnits]), FALSE)

\* one attribute update: PUT replaces, ADD accumulates a number
Updated(old, a, u) ==
    LET w == JsonWire(u.Value) IN
    IF u.Action = "ADD" /\ a \in DOMAIN old
    THEN Wire("N", UniV(PyStr(PyInt(old[a].val.s) + PyInt(w.val.s))))
    ELSE w

UpdateValid(old, update_data) ==
    \A a \in DOMAIN update_data :
        update_data[a].Action = "ADD" =>
            /\ update_data[a].Value.tag = "N"
            /\ a \in DOMAIN old => old[a].tag = "N"

StoreUpdate(st, req) ==
    LET key == JsonKey(req.key)
        existing == Lookup(st, req.table, key)
        old == IF existing = {} THEN KeyAttrs(req.table, key)
               ELSE CHOOSE it \in existing : TRUE
        new == [a \in DOMAIN old \cup DOMAIN req.update_data |->
                   IF a \in DOMAIN req.update_data
                   THEN Updated(old, a, req.update_data[a]) ELSE old[a]] IN
    IF ~UpdateValid(old, req.update_data)
    THEN Rejected(st, ValidationType, "type mismatch for attribute to update")
    ELSE Outcome([st EXCEPT ![req.table] = (@ \ existing) \cup {new}],
                 Response([Attributes |-> new,
                           ConsumedCapacityUnits |-> CapacityUnits]), FALSE)

\* the order of the strings the model uses
StringOrder == <<"", "a", "b", "u", "x">>
StrRank(str) == CHOOSE i \in 1..Len(StringOrder) : StringOrder[i] = str

\* a stored value against a bound: numbers by value, strings by order,
\* nothing else compares
Compare(w, comp, bound) ==
    IF w.tag = "N" /\ bound.tag = "N"
    THEN IF comp = "GT" THEN PyInt(w.val.s) > PyInt(bound.val.s)
         ELSE PyInt(w.val.s) < PyInt(bound.val.s)
    ELSE IF w.tag = "S" /\ bound.tag = "S"
    THEN IF comp = "GT" THEN StrRank(w.val.s) > StrRank(bound.val.s)
         ELSE StrRank(w.val.s) < StrRank(bound.val.s)
    ELSE FALSE

Orderings(S) ==
    {q \in [1..Cardinality(S) -> S] : \A i, j \in 1..Cardinality(S) : q[i] = q[j] => i = j}
Capped(q, limit) ==
    IF limit = None \/ limit.n >= Len(q) THEN q ELSE SubSeq(q, 1, limit.n)

\* Scan: the items some attribute of which meets the filter (all items
\* without a filter), in an order of the store's choosing, cut at the limit
ScanMatches(st, req) ==
    IF req.scan_filter = NoFilter THEN st[req.table]
    ELSE {it \in st[req.table] :
            \E a \in DOMAIN it :
                Compare(it[a], req.scan_filter.ComparisonOperator,
                        JsonWire(req.scan_filter.AttributeValueList[1]))}
StoreScan(st, req) ==
    {Outcome(st, Response([Items |-> Capped(q, req.limit)]), FALSE) :
        q \in Orderings(ScanMatches(st, req))}

\* Query: the items of one hash key whose range key meets the condition,
\* ordered by range key, forwards or backwards, cut at the limit
RangeOf(t, it) == it[Table(t).range_key_name]
QueryMatches(st, req) ==
    {it \in st[req.table] :
        /\ it[Table(req.table).hash_key_name] = JsonWire(req.key)
        /\ Compare(RangeOf(req.table, it),
                   req.range_key_conditions.ComparisonOperator,
                   JsonWire(req.range_key_conditions.AttributeValueList[1]))}
RangeBefore(t, a, b, forward) ==
    IF forward THEN Compare(RangeOf(t, a), "LT", RangeOf(t, b))
    ELSE Compare(RangeOf(t, a), "GT", RangeOf(t, b))
QueryValid(req) ==
    /\ Table(req.table).range_key_name # NoName
    /\ req.key.tag = TagOf(Table(req.table).hash_key_type)
    /\ req.range_key_conditions.AttributeValueList[1].tag
         = TagOf(Table(req.table).range_key_type)
StoreQuery(st, req) ==
    IF ~QueryValid(req)
    THEN {Rejected(st, ValidationType, "query condition does not match the schema")}
    ELSE {Outcome(st, Response([Items |-> Capped(q, req.limit)]), FALSE) :
            q \in {o \in Orderings(QueryMatches(st, req)) :
                    \A i, j \in 1..Len(o) :
                        i < j => RangeBefore(req.table, o[i], o[j], req.scan_index_forward)}}

\* BatchGetItem: the items found, in the order of the keys
RECURSIVE Found(_, _, _, _)
Found(st, t, keys, i) ==
    IF i > Len(keys) THEN <<>>
    ELSE LET existing == Lookup(st, t, JsonKey(keys[i])) IN
         (IF existing = {} THEN <<>> ELSE <<CHOOSE it \in existing : TRUE>>)
         \o Found(st, t, keys, i + 1)
StoreBatchGet(st, req) ==
    Outcome(st, Response([Items |-> Found(st, req.table, req.Keys, 1)]), FALSE)

\* BatchWriteItem: every Put and Delete of every named table is applied
BatchPuts(ops) == {JsonItem(ops[i].Item) : i \in {j \in 1..Len(ops) : ops[j].kind = "PutRequest"}}
BatchDeletes(ops) == {JsonKey(ops[i].Key) : i \in {j \in 1..Len(ops) : ops[j].kind = "DeleteRequest"}}
BatchSize(RequestItems) ==
    LET RECURSIVE Sum(_)
        Sum(T) == IF T = {} THEN 0
                  ELSE LET t == CHOOSE x \in T : TRUE IN
                       Len(RequestItems[t]) + Sum(T \ {t}) IN
    Sum(DOMAIN RequestItems)
BatchValid(RequestItems) ==
    /\ BatchSize(RequestItems) <= BatchLimit
    /\ \A t \in DOMAIN RequestItems :
          /\ t \in _tables
          /\ \A it \in BatchPuts(RequestItems[t]) : HasKeys(t, it)
BatchApplied(st, RequestItems) ==
    [t \in DOMAIN st |->
        IF t \in DOMAIN RequestItems
        THEN LET puts == BatchPuts(RequestItems[t])
                 gone == BatchDeletes(RequestItems[t])
                         \cup {KeyOfItem(t, it) : it \in puts} IN
             {it \in st[t] : KeyOfItem(t, it) \notin gone} \cup puts
        ELSE st[t]]
StoreBatchWrite(st, req) ==
    IF ~BatchValid(req.RequestItems)
    THEN Rejected(st, ValidationType, "invalid batch")
    ELSE Outcome(BatchApplied(st, req.RequestItems),
                 Response([Responses |->
                    [t \in DOMAIN req.RequestItems |->
                        [ConsumedCapacityUnits |-> IntV(Len(req.RequestItems[t]))]]]),
                 FALSE)

\* what the store may answer to a request
StoreOutcomes(st, req) ==
    CASE req.op = "PutItem" -> {StorePut(st, req)}
      [] req.op = "DeleteItem" -> {StoreDelete(st, req)}
      [] req.op = "GetItem" -> {StoreGet(st, req)}
      [] req.op = "UpdateItem" -> {StoreUpdate(st, req)}
      [] req.op = "BatchGetItem" -> {StoreBatchGet(st, req)}
      [] req.op = "Scan" -> StoreScan(st, req)
      [] req.op = "Query" -> StoreQuery(st, req)
      [] OTHER -> {StoreBatchWrite(st, req)}

\* what the transport may report without the store having acted
TransportFailures(st) ==
    {Outcome(st, ErrorBody(InternalType, "internal failure"), TRUE),
     Outcome(st, NoneResponse, TRUE)}

(***************************************************************************)
(* The calls.  A call record keeps what the caller passed, what was raised *)
(* synchronously, the request handed to the transport, what the transport  *)
(* reported and the events delivered to the caller's handle.               *)
(***************************************************************************)
NewCall(op, t, args, r) ==
    [op |-> op, table |-> t, args |-> args, exc |-> r.exc, req |-> r.req,
     state |-> IF r.exc = "none" THEN "pending" ELSE "raised",
     response |-> NoneResponse, error |-> FALSE, events |-> <<>>, seq |-> 0]

Pending == {i \in 1..Len(calls) : calls[i].state = "pending"}
Completed == {i \in 1..Len(calls) : calls[i].state = "done"}

\* keep: the calls are kept in a history of at most MaxCalls and may be in
\* flight together; otherwise the caller issues a call once the previous
\* one is over and only the latest call is kept
Issue(c, keep) ==
    IF keep
    THEN Len(calls) < MaxCalls /\ calls' = Append(calls, c)
    ELSE Pending = {} /\ calls' = <<c>>

\* the number an ADD leaves stored stays within the integers of the model
StoredNumber(t, key, a) ==
    LET existing == Lookup(store, t, JsonKey(key)) IN
    IF existing = {} THEN 0
    ELSE LET it == CHOOSE x \in existing : TRUE IN
         IF a \in DOMAIN it /\ it[a].tag = "N" THEN PyInt(it[a].val.s) ELSE 0
RECURSIVE PendingAdds(_, _, _, _)
PendingAdds(t, key, a, i) ==
    IF i > Len(calls) THEN 0
    ELSE (IF /\ calls[i].state = "pending" /\ calls[i].req.op = "UpdateItem"
             /\ calls[i].req.table = t /\ calls[i].req.key = key
             /\ a \in DOMAIN calls[i].req.update_data
             /\ calls[i].req.update_data[a].Value.tag = "N"
          THEN PyInt(calls[i].req.update_data[a].Value.val.s) ELSE 0)
         + PendingAdds(t, key, a, i + 1)
Room(r, cap) ==
    r.exc = "none" =>
        \A a \in DOMAIN r.req.update_data :
            r.req.update_data[a].Value.tag = "N" =>
                StoredNumber(r.req.table, r.req.key, a)
                + PendingAdds(r.req.table, r.req.key, a, 1)
                + PyInt(r.req.update_data[a].Value.val.s) <= cap

\* the caller holds a builder only until it starts another operation
Frame == sc' = NoChain /\ qc' = NoChain /\ UNCHANGED <<val, packed, unpacked>>
ChainFrame == UNCHANGED <<sc, qc, val, packed, unpacked>>

Get(t, kwargs, keep) ==
    /\ Issue(NewCall("get", t, kwargs, get(t, kwargs)), keep)
    /\ UNCHANGED store /\ Frame

BatchGet(t, items, keep) ==
    /\ Issue(NewCall("batch_get", t, items, batch_get(t, items)), keep)
    /\ UNCHANGED store /\ Frame

Put(t, kwargs, keep) ==
    /\ \E f \in FirstChoices(kwargs) :
          Issue(NewCall("put", t, kwargs, put(t, kwargs, f)), keep)
    /\ UNCHANGED store /\ Frame

Update(t, kwargs, keep) ==
    /\ \E f \in FirstChoices(kwargs) :
          Issue(NewCall("update", t, kwargs, update(t, kwargs, f)), keep)
    /\ UNCHANGED store /\ Frame

Increment(t, kwargs, keep, cap) ==
    /\ \E f \in FirstChoices(kwargs) :
          /\ Room(increment(t, kwargs, f), cap)
          /\ Issue(NewCall("increment", t, kwargs, increment(t, kwargs, f)), keep)
    /\ UNCHANGED store /\ Frame

Remove(t, kwargs, keep) ==
    /\ \E f \in FirstChoices(kwargs) :
          Issue(NewCall("remove", t, kwargs, remove(t, kwargs, f)), keep)
    /\ UNCHANGED store /\ Frame

\* the batches of the model hold scalar attributes only
NoFirst(item) == [k \in DOMAIN item |-> None]
NoFirsts(items) == [i \in 1..Len(items) |-> NoFirst(items[i])]

MassWrite(t, items, keep) ==
    /\ Issue(NewCall("mass_write", t, items, mass_write(t, items, NoFirsts(items))), keep)
    /\ UNCHANGED store /\ Frame

MultiWrite(tables, order, keep) ==
    /\ Issue(NewCall("multi_write", "", [tables |-> tables, order |-> order],
                     multi_write(tables, order,
                                 [t \in DOMAIN tables |-> NoFirsts(tables[t])])), keep)
    /\ UNCHANGED store /\ Frame

MultiDelete(tables, order, keep) ==
    /\ Issue(NewCall("multi_delete", "", [tables |-> tables, order |-> order],
                     multi_delete(tables, order)), keep)
    /\ UNCHANGED store /\ Frame

\* the transport reports the store's answer: the callback bound to the
\* request runs once
Finish(i, o) ==
    /\ store' = o.store
    /\ calls' = [calls EXCEPT ![i] =
                    [@ EXCEPT !.state = "done", !.response = o.response,
                              !.error = o.error,
                              !.events = CallbackOf(calls[i].op, o.response, o.error),
                              !.seq = Cardinality(Completed) + 1]]
    /\ ChainFrame

Complete(i) ==
    /\ i \in Pending
    /\ \E o \in StoreOutcomes(store, calls[i].req) : Finish(i, o)

\* the transport reports a failure of its own
Fail(i) ==
    /\ i \in Pending
    /\ \E o \in TransportFailures(store) : Finish(i, o)

(***************************************************************************)
(* The builders.  The caller works with one builder at a time: making a    *)
(* new one drops the other, and where only the latest call is kept it      *)
(* also drops the handle of the call before.                               *)
(***************************************************************************)
CodecFrame == UNCHANGED <<val, packed, unpacked>>
Fresh(keep) == IF keep THEN UNCHANGED calls ELSE Pending = {} /\ calls' = <<>>
Configure == UNCHANGED <<store, calls>> /\ CodecFrame

ScanNew(t, keep) ==
    sc' = ScanChain(t) /\ qc' = NoChain /\ Fresh(keep) /\ UNCHANGED store /\ CodecFrame
ScanGt(v) == sc # NoChain /\ sc' = ScanChain_gt(sc, v) /\ UNCHANGED qc /\ Configure
ScanLt(v) == sc # NoChain /\ sc' = ScanChain_lt(sc, v) /\ UNCHANGED qc /\ Configure
ScanAsc == sc # NoChain /\ sc' = ScanChain_asc(sc) /\ UNCHANGED qc /\ Configure
ScanDesc == sc # NoChain /\ sc' = ScanChain_desc(sc) /\ UNCHANGED qc /\ Configure
ScanLimit(n) == sc # NoChain /\ sc' = ScanChain_limit(sc, n) /\ UNCHANGED qc /\ Configure
ScanCall(keep) ==
    /\ sc # NoChain
    /\ \E first \in Firsts(sc._scan) :
          Issue(NewCall("scan", sc._table_proxy, sc, ScanChain_call(sc, first)), keep)
    /\ UNCHANGED store /\ ChainFrame

QueryNew(t, key, keep) ==
    qc' = QueryChain(t, key) /\ sc' = NoChain /\ Fresh(keep) /\ UNCHANGED store /\ CodecFrame
QueryGt(v) == qc # NoChain /\ qc' = QueryChain_gt(qc, v) /\ UNCHANGED sc /\ Configure
QueryLt(v) == qc # NoChain /\ qc' = QueryChain_lt(qc, v) /\ UNCHANGED sc /\ Configure
QueryAsc == qc # NoChain /\ qc' = QueryChain_asc(qc) /\ UNCHANGED sc /\ Configure
QueryDesc == qc # NoChain /\ qc' = QueryChain_desc(qc) /\ UNCHANGED sc /\ Configure
QueryLimit(n) == qc # NoChain /\ qc' = QueryChain_limit(qc, n) /\ UNCHANGED sc /\ Configure
QueryCall(keep) ==
    /\ qc # NoChain
    /\ \E first \in Firsts(qc._range) :
          Issue(NewCall("query", qc._table_proxy, qc, QueryChain_call(qc, first)), keep)
    /\ UNCHANGED store /\ ChainFrame

(***************************************************************************)
(* The caller of a builder.  Next to the builder object, val keeps what    *)
(* the caller has told the builder it holds: the hash value it asked for   *)
(* and the arguments of its latest gt/lt, asc/desc and limit calls.  The   *)
(* call record of an invocation keeps that account as its arguments.       *)
(***************************************************************************)
Told(key) ==
    [key |-> key, comp |-> "None", bound |-> None, forward |-> TRUE, limit |-> None]
Builder == IF qc # NoChain THEN qc ELSE sc
Hold(b) == IF qc # NoChain THEN qc' = b /\ UNCHANGED sc ELSE sc' = b /\ UNCHANGED qc
CallerFrame == UNCHANGED <<store, calls, packed, unpacked>>

\* table.scan() and table.query(key): a new builder replaces the one held
CallerScan(t) ==
    /\ sc' = ScanChain(t) /\ qc' = NoChain /\ val' = Told(None)
    /\ Fresh(FALSE) /\ UNCHANGED <<store, packed, unpacked>>
CallerQuery(t, key) ==
    /\ qc' = QueryChain(t, key) /\ sc' = NoChain /\ val' = Told(key)
    /\ Fresh(FALSE) /\ UNCHANGED <<store, packed, unpacked>>

\* builder.gt(v), .lt(v), .asc(), .desc(), .limit(n)
CallerGt(v) ==
    /\ Builder # NoChain
    /\ Hold(IF qc # NoChain THEN QueryChain_gt(qc, v) ELSE ScanChain_gt(sc, v))
    /\ val' = [val EXCEPT !.comp = "GT", !.bound = v]
    /\ CallerFrame
CallerLt(v) ==
    /\ Builder # NoChain
    /\ Hold(IF qc # NoChain THEN QueryChain_lt(qc, v) ELSE ScanChain_lt(sc, v))
    /\ val' = [val EXCEPT !.comp = "LT", !.bound = v]
    /\ CallerFrame
CallerAsc ==
    /\ Builder # NoChain
    /\ Hold(IF qc # NoChain THEN QueryChain_asc(qc) ELSE ScanChain_asc(sc))
    /\ val' = [val EXCEPT !.forward = TRUE]
    /\ CallerFrame
CallerDesc ==
    /\ Builder # NoChain
    /\ Hold(IF qc # NoChain THEN QueryChain_desc(qc) ELSE ScanChain_desc(sc))
    /\ val' = [val EXCEPT !.forward = FALSE]
    /\ CallerFrame
CallerLimit(n) ==
    /\ Builder # NoChain
    /\ Hold(IF qc # NoChain THEN QueryChain_limit(qc, n) ELSE ScanChain_limit(sc, n))
    /\ val' = [val EXCEPT !.limit = n]
    /\ CallerFrame

\* an invocation that consumes the builder: it is left as it was made
CallerInvoke_consuming(keep) ==
    /\ Builder # NoChain
    /\ Issue(NewCall(IF qc # NoChain THEN "query" ELSE "scan", Builder._table_proxy, val,
                     IF qc # NoChain THEN QueryChain_call(qc, None)
                     ELSE ScanChain_call(sc, None)), keep)
    /\ Hold(IF qc # NoChain THEN QueryChain(qc._table_proxy, qc._key)
            ELSE ScanChain(sc._table_proxy))
    /\ UNCHANGED <<store, val, packed, unpacked>>

\* the gen engine starts the task: builder(callback=...).  The bounds of
\* the model are scalars, so _pack_val needs no first member.
CallerInvoke(keep) ==
    /\ Builder # NoChain
    /\ Issue(NewCall(IF qc # NoChain THEN "query" ELSE "scan", Builder._table_proxy, val,
                     IF qc # NoChain THEN QueryChain_call(qc, None)
                     ELSE ScanChain_call(sc, None)), keep)
    /\ UNCHANGED <<store, sc, qc, val, packed, unpacked>>

(***************************************************************************)
(* The codec on its own: a native value is packed, and what was packed is  *)
(* unpacked, either directly or as the store hands it back.                *)
(***************************************************************************)
NotYet == [exc |-> "not yet", val |-> None]

Pack ==
    /\ packed = NotYet
    /\ \E first \in Firsts(val) : packed' = _pack_val(val, first)
    /\ UNCHANGED <<store, calls, sc, qc, val, unpacked>>

Unpack ==
    /\ packed.exc = "none" /\ unpacked = NotYet
    /\ unpacked' = _unpack_val(packed.val)
    /\ UNCHANGED <<store, calls, sc, qc, val, packed>>

UnpackStored ==
    /\ packed.exc = "none" /\ unpacked = NotYet
    /\ unpacked' = _unpack_val(JsonWire(packed.val))
    /\ UNCHANGED <<store, calls, sc, qc, val, packed>>

(***************************************************************************)
(* Inputs.                                                                 *)
(***************************************************************************)
Members == {IntV(0), IntV(1), IntV(2), StrV("a"), StrV("b"), UniV("a")}
NativeInputs ==
    {None, IntV(0 - 1), IntV(0), IntV(1), IntV(MaxInt), StrV(""), StrV("a"),
     UniV("a"), ListV({IntV(1)})}
    \cup {SetV(m) : m \in SUBSET Members}

UsersKwargs ==
    {[id |-> IntV(1)],
     [id |-> IntV(1), name |-> StrV("a")],
     [id |-> IntV(1), counter |-> IntV(1)],
     [id |-> IntV(1), tags |-> SetV({IntV(1), IntV(2)})],
     [id |-> StrV("x")],
     [name |-> StrV("a")]}
EventsKwargs ==
    {[owner |-> StrV("u"), ts |-> IntV(1)],
     [owner |-> StrV("u"), ts |-> IntV(1), name |-> StrV("a")],
     [owner |-> StrV("u")],
     [owner |-> StrV("u"), ts |-> StrV("x")],
     [owner |-> IntV(1), ts |-> IntV(1)],
     [ts |-> IntV(1)]}
Kwargs(t) == IF t = "users" THEN UsersKwargs ELSE EventsKwargs

KeysOnly(t) ==
    IF t = "users" THEN [id |-> IntV(1)] ELSE [owner |-> StrV("u"), ts |-> IntV(1)]

\* short batches of dicts for batch_get and mass_write
Batches(t) == {<<>>} \cup {<<KeysOnly(t), b>> : b \in Kwargs(t)}

\* a few table-name -> batch maps for multi_write and multi_delete; "ghost"
\* is not a table of the database
SmallMulti ==
    {Dict1("users", <<[id |-> IntV(1), name |-> StrV("a")]>>),
     Dict1("users", <<[id |-> IntV(1)]>>) @@ Dict1("events", <<KeysOnly("events")>>),
     Dict1("users", <<[name |-> StrV("a")]>>),
     Dict1("ghost", <<>>)}

\* the batch of n items with distinct keys for table t
RECURSIVE Gen(_, _)
Gen(t, n) ==
    IF n = 0 THEN <<>>
    ELSE Append(Gen(t, n - 1),
                IF t = "users" THEN [id |-> IntV(n)]
                ELSE [owner |-> StrV("u"), ts |-> IntV(n)])

\* the arguments of a batch call: any subset of the tables, each with a
\* batch of 0..MaxBatch items, visited in any order
BatchArgs(op) ==
    {[op |-> op, tables |-> [t \in DOMAIN n |-> Gen(t, n[t])], order |-> order] :
        n \in UNION {[D -> 0..MaxBatch] : D \in SUBSET _tables},
        order \in UNION {Orderings(D) : D \in SUBSET _tables}}
BatchInputs ==
    {a \in BatchArgs("multi_write") \cup BatchArgs("multi_delete") :
        DOMAIN a.tables = {a.order[i] : i \in 1..Len(a.order)}}
    \cup {[op |-> "mass_write", tables |-> Dict1(t, Gen(t, n)), order |-> <<t>>] :
            t \in _tables, n \in 0..MaxBatch}

BoundValues == {IntV(0), IntV(1), StrV(""), StrV("a")}
LimitValues == {IntV(1), IntV(2)}
QueryKeys == {StrV("u"), IntV(0)}

(***************************************************************************)
(* Spec: every operation, one call after the other, on short inputs.       *)
(***************************************************************************)
Init ==
    /\ store = [t \in _tables |-> {}]
    /\ calls = <<>>
    /\ sc = NoChain /\ qc = NoChain
    /\ val = None /\ packed = NotYet /\ unpacked = NotYet

Next ==
    \/ \E t \in _tables : \E kwargs \in Kwargs(t) : Get(t, kwargs, FALSE)
    \/ \E t \in _tables : \E items \in Batches(t) : BatchGet(t, items, FALSE)
    \/ \E t \in _tables : \E kwargs \in Kwargs(t) : Put(t, kwargs, FALSE)
    \/ \E t \in _tables : \E kwargs \in Kwargs(t) : Update(t, kwargs, FALSE)
    \/ \E t \in _tables : \E kwargs \in Kwargs(t) : Increment(t, kwargs, FALSE, MaxCounter)
    \/ \E t \in _tables : \E kwargs \in Kwargs(t) : Remove(t, kwargs, FALSE)
    \/ \E t \in _tables : \E items \in Batches(t) : MassWrite(t, items, FALSE)
    \/ \E tables \in SmallMulti : \E order \in Orderings(DOMAIN tables) :
          MultiWrite(tables, order, FALSE)
    \/ \E tables \in SmallMulti : \E order \in Orderings(DOMAIN tables) :
          MultiDelete(tables, order, FALSE)
    \/ \E t \in _tables : ScanNew(t, FALSE)
    \/ \E v \in {IntV(0), IntV(1)} : ScanGt(v)
    \/ \E v \in {IntV(0), IntV(1)} : ScanLt(v)
    \/ ScanCall(FALSE)
    \/ QueryNew("events", StrV("u"), FALSE)
    \/ \E v \in {IntV(0), IntV(1)} : QueryGt(v)
    \/ \E v \in {IntV(0), IntV(1)} : QueryLt(v)
    \/ QueryCall(FALSE)
    \/ \E i \in 1..Len(calls) : Complete(i)
    \/ \E i \in 1..Len(calls) : Fail(i)

Spec == Init /\ [][Next]_vars

(***************************************************************************)
(* SpecCodec: _pack_val and _unpack_val on every native input.             *)
(***************************************************************************)
InitCodec ==
    /\ store = [t \in _tables |-> {}]
    /\ calls = <<>>
    /\ sc = NoChain /\ qc = NoChain
    /\ val \in NativeInputs /\ packed = NotYet /\ unpacked = NotYet

NextCodec == Pack \/ Unpack \/ UnpackStored

SpecCodec == InitCodec /\ [][NextCodec]_vars

(***************************************************************************)
(* SpecChain: the builders with all their methods, against a store that    *)
(* holds a few items.                                                      *)
(***************************************************************************)
StoredItem(kwargs) == JsonItem(_pack(kwargs, NoFirst(kwargs)).val)
ChainStore ==
    [t \in _tables |->
        IF t = "users"
        THEN {StoredItem([id |-> IntV(0)]), StoredItem([id |-> IntV(1)]),
              StoredItem([id |-> IntV(2), name |-> StrV("a")])}
        ELSE {StoredItem([owner |-> StrV("u"), ts |-> IntV(0)]),
              StoredItem([owner |-> StrV("u"), ts |-> IntV(1)]),
              StoredItem([owner |-> StrV("u"), ts |-> IntV(2)])}]

InitChain ==
    /\ store = ChainStore
    /\ calls = <<>>
    /\ sc = NoChain /\ qc = NoChain
    /\ val = None /\ packed = NotYet /\ unpacked = NotYet

NextChain ==
    \/ \E t \in _tables : ScanNew(t, FALSE)
    \/ \E v \in BoundValues : ScanGt(v)
    \/ \E v \in BoundValues : ScanLt(v)
    \/ ScanAsc
    \/ ScanDesc
    \/ \E n \in LimitValues : ScanLimit(n)
    \/ ScanCall(FALSE)
    \/ \E key \in QueryKeys : QueryNew("events", key, FALSE)
    \/ \E v \in BoundValues : QueryGt(v)
    \/ \E v \in BoundValues : QueryLt(v)
    \/ QueryAsc
    \/ QueryDesc
    \/ \E n \in LimitValues : QueryLimit(n)
    \/ QueryCall(FALSE)
    \/ \E i \in 1..Len(calls) : Complete(i)
    \/ \E i \in 1..Len(calls) : Fail(i)

SpecChain == InitChain /\ [][NextChain]_vars

(***************************************************************************)
(* SpecBatch: one batch write on an argument drawn at the start, with      *)
(* batches up to and beyond the limit of 25.                               *)
(***************************************************************************)
InitBatch ==
    /\ store = [t \in _tables |-> {}]
    /\ calls = <<>>
    /\ sc = NoChain /\ qc = NoChain
    /\ val \in BatchInputs /\ packed = NotYet /\ unpacked = NotYet

MassWriteInput ==
    val.op = "mass_write" /\ calls = <<>>
    /\ MassWrite(val.order[1], val.tables[val.order[1]], TRUE)
MultiWriteInput ==
    val.op = "multi_write" /\ calls = <<>> /\ MultiWrite(val.tables, val.order, TRUE)
MultiDeleteInput ==
    val.op = "multi_delete" /\ calls = <<>> /\ MultiDelete(val.tables, val.order, TRUE)

NextBatch ==
    \/ MassWriteInput
    \/ MultiWriteInput
    \/ MultiDeleteInput
    \/ \E i \in 1..Len(calls) : Complete(i)
    \/ \E i \in 1..Len(calls) : Fail(i)

SpecBatch == InitBatch /\ [][NextBatch]_vars

(***************************************************************************)
(* SpecPut: conditional puts and removes on the same keys, in flight       *)
(* together and completed in any order.                                    *)
(***************************************************************************)
PutKwargs ==
    {[id |-> IntV(1), name |-> StrV("a")], [id |-> IntV(1), name |-> StrV("b")],
     [id |-> IntV(2), name |-> StrV("a")]}
RemoveKwargs == {[id |-> IntV(1)], [id |-> IntV(1), name |-> StrV("a")]}

NextPut ==
    \/ \E kwargs \in PutKwargs : Put("users", kwargs, TRUE)
    \/ \E kwargs \in RemoveKwargs : Remove("users", kwargs, TRUE)
    \/ \E i \in 1..Len(calls) : Complete(i)
    \/ \E i \in 1..Len(calls) : Fail(i)

SpecPut == Init /\ [][NextPut]_vars

(***************************************************************************)
(* SpecIncr: increments of one attribute of one key, in flight together    *)
(* and completed in any order.                                             *)
(***************************************************************************)
Increments == {[id |-> IntV(1), counter |-> IntV(5)], [id |-> IntV(1), counter |-> IntV(3)]}

NextIncr ==
    \/ \E kwargs \in Increments : Increment("users", kwargs, TRUE, MaxInt)
    \/ \E i \in 1..Len(calls) : Complete(i)
    \/ \E i \in 1..Len(calls) : Fail(i)

SpecIncr == Init /\ [][NextIncr]_vars

(***************************************************************************)
(* SpecQuery: the query builder as its caller drives it, against every     *)
(* content of the events table made of a few items.                        *)
(***************************************************************************)
QueryItems ==
    {StoredItem([owner |-> StrV("u"), ts |-> IntV(0)]),
     StoredItem([owner |-> StrV("u"), ts |-> IntV(1), name |-> StrV("a")]),
     StoredItem([owner |-> StrV("u"), ts |-> IntV(2)]),
     StoredItem([owner |-> StrV("x"), ts |-> IntV(1)])}
QueryHashes == {StrV("u"), StrV("x")}
QueryBounds == {IntV(0), IntV(1)}

InitQuery ==
    /\ store \in {[t \in _tables |-> IF t = "events" THEN S ELSE {}] : S \in SUBSET QueryItems}
    /\ calls = <<>>
    /\ sc = NoChain /\ qc = NoChain
    /\ val = Told(None) /\ packed = NotYet /\ unpacked = NotYet

NextQuery ==
    \/ \E key \in QueryHashes : CallerQuery("events", key)
    \/ \E v \in QueryBounds : CallerGt(v)
    \/ \E v \in QueryBounds : CallerLt(v)
    \/ CallerAsc
    \/ CallerDesc
    \/ CallerInvoke(FALSE)
    \/ \E i \in 1..Len(calls) : Complete(i)
    \/ \E i \in 1..Len(calls) : Fail(i)

SpecQuery == InitQuery /\ [][NextQuery]_vars

(***************************************************************************)
(* SpecScan: the scan builder as its caller drives it, against every       *)
(* content of the users table made of a few items.                         *)
(***************************************************************************)
ScanItems ==
    {StoredItem([id |-> IntV(0)]),
     StoredItem([id |-> IntV(1), name |-> StrV("a")]),
     StoredItem([id |-> IntV(2)])}

InitScan ==
    /\ store \in {[t \in _tables |-> IF t = "users" THEN S ELSE {}] : S \in SUBSET ScanItems}
    /\ calls = <<>>
    /\ sc = NoChain /\ qc = NoChain
    /\ val = Told(None) /\ packed = NotYet /\ unpacked = NotYet

NextScan ==
    \/ CallerScan("users")
    \/ CallerGt(IntV(1))
    \/ CallerLt(IntV(1))
    \/ CallerAsc
    \/ CallerDesc
    \/ \E n \in LimitValues : CallerLimit(n)
    \/ CallerInvoke(FALSE)
    \/ \E i \in 1..Len(calls) : Complete(i)
    \/ \E i \in 1..Len(calls) : Fail(i)

SpecScan == InitScan /\ [][NextScan]_vars

(***************************************************************************)
(* SpecDelete: one multi_delete on an argument drawn at the start: key     *)
(* specs with and without further attributes, without a key, and batches   *)
(* that reach the limit before or after such a spec.                       *)
(***************************************************************************)
DeleteBatches(t) ==
    {<<>>, <<KeysOnly(t)>>, Gen(t, 2), Gen(t, 25), Gen(t, 26)}
    \cup {<<b>> : b \in Kwargs(t)}
    \cup {<<KeysOnly(t), b>> : b \in Kwargs(t)}
    \cup {Append(Gen(t, n), KeysOnly(t) @@ Dict1("name", StrV("a"))) : n \in {24, 25, 26}}
DeleteInputs ==
    UNION {{[op |-> "multi_delete", tables |-> Dict1(t, b), order |-> <<t>>] :
                b \in DeleteBatches(t)} : t \in _tables}
    \cup {[op |-> "multi_delete", tables |-> Dict1("users", b) @@ Dict1("events", c),
           order |-> order] :
            b \in {<<>>, Gen("users", 2), <<[id |-> IntV(1), name |-> StrV("a")]>>},
            c \in {<<>>, Gen("events", 1), Gen("events", 24),
                   <<[owner |-> StrV("u"), ts |-> IntV(1), name |-> StrV("a")]>>},
            order \in Orderings(_tables)}

InitDelete ==
    /\ store = ChainStore
    /\ calls = <<>>
    /\ sc = NoChain /\ qc = NoChain
    /\ val \in DeleteInputs /\ packed = NotYet /\ unpacked = NotYet

NextDelete ==
    \/ MultiDeleteInput
    \/ \E i \in 1..Len(calls) : Complete(i)
    \/ \E i \in 1..Len(calls) : Fail(i)

SpecDelete == InitDelete /\ [][NextDelete]_vars

(***************************************************************************)
(* SpecKey: puts and removes, one after the other, of items that share a   *)
(* hash key, a range key, both or neither, on both tables.                 *)
(***************************************************************************)
KeyPuts(t) ==
    IF t = "users"
    THEN {[id |-> IntV(1)], [id |-> IntV(1), name |-> StrV("a")], [id |-> IntV(2)]}
    ELSE {[owner |-> StrV("u"), ts |-> IntV(1)],
          [owner |-> StrV("u"), ts |-> IntV(1), name |-> StrV("a")],
          [owner |-> StrV("u"), ts |-> IntV(2)],
          [owner |-> StrV("x"), ts |-> IntV(1)]}
KeyRemoves(t) == {kwargs \in KeyPuts(t) : DOMAIN kwargs = DOMAIN KeysOnly(t)}

NextKey ==
    \/ \E t \in _tables : \E kwargs \in KeyPuts(t) : Put(t, kwargs, FALSE)
    \/ \E t \in _tables : \E kwargs \in KeyRemoves(t) : Remove(t, kwargs, FALSE)
    \/ \E i \in 1..Len(calls) : Complete(i)
    \/ \E i \in 1..Len(calls) : Fail(i)

SpecKey == Init /\ [][NextKey]_vars

(***************************************************************************)
(* SpecReuse: one builder at a time, invoked as often as its caller likes; *)
(* the history holds the invocations of the builder now held.              *)
(***************************************************************************)
NextReuse ==
    \/ CallerScan("users")
    \/ CallerQuery("events", StrV("u"))
    \/ CallerGt(IntV(1))
    \/ CallerInvoke(TRUE)
    \/ \E i \in 1..Len(calls) : Complete(i)

SpecReuse == Init /\ [][NextReuse]_vars

(***************************************************************************)
(* SpecExtract: either one call of _extract_keys, on any of the schemas    *)
(* __init__ accepts and any short dict, or update and increment calls one  *)
(* after the other.  After the call of _extract_keys val holds the schema, *)
(* the entries the caller put in its dict, the dicts as the call left them *)
(* and what the call returned or raised.                                   *)
(***************************************************************************)
ExtractSchemas ==
    {GenDynamoTable(ht, hn, r[1], r[2]) :
        ht \in {"int", "str"}, hn \in {"id", NoName},
        r \in {<<"None", NoName>>} \cup ({"int", "str"} \X {"ts", "id", NoName})}
ExtractValues == {IntV(1), StrV("a"), SetV({StrV("a")})}
ExtractDicts == UNION {[D -> ExtractValues] : D \in SUBSET {"id", "ts", "name"}}

ExtractKeys(self, data) ==
    /\ val = None /\ calls = <<>>
    /\ val' = [self |-> self, given |-> data,
               dicts |-> _extract_keys_dicts(self, Arg :> data),
               out |-> _extract_keys(self, data)]
    /\ UNCHANGED <<store, calls, sc, qc, packed, unpacked>>

NextExtract ==
    \/ \E self \in ExtractSchemas : \E data \in ExtractDicts : ExtractKeys(self, data)
    \/ \E t \in _tables : \E kwargs \in Kwargs(t) : val = None /\ Update(t, kwargs, FALSE)
    \/ \E t \in _tables : \E kwargs \in Kwargs(t) :
          val = None /\ Increment(t, kwargs, FALSE, MaxCounter)
    \/ \E i \in 1..Len(calls) : Complete(i)

SpecExtract == Init /\ [][NextExtract]_vars

(***************************************************************************)
(* Properties.                                                             *)
(***************************************************************************)
Raised(c) == c.exc # "none"
Dispatched(c) == c.exc = "none"
Resolved(c) == Len(c.events) = 1 /\ c.events[1].kind = "callback"
FailedWith(c, cls) == Len(c.events) = 1 /\ c.events[1].kind = "raise" /\ c.events[1].cls = cls
\* the store, not the transport, answered the request
StoreAnswered(c) ==
    c.state = "done" /\ (c.error => ~c.response.none /\ c.response.d.__type # InternalType)

\* C1: once a put of key k has succeeded and no remove of k has succeeded
\* since, a later put of k that the store answers ends as a
\* ConcurrentUpdateException (the spec's ConcurrencyConflict), and a put that
\* finds its key absent resolves to the consumed capacity.
SameKey(c, d) == c.args.id = d.args.id
RemovedBetween(i, j) ==
    \E r \in Completed :
        /\ calls[r].op = "remove" /\ SameKey(calls[r], calls[i]) /\ Resolved(calls[r])
        /\ calls[i].seq < calls[r].seq /\ calls[r].seq < calls[j].seq
C1_PutConflict ==
    \A i, j \in Completed :
        ( /\ calls[i].op = "put" /\ calls[j].op = "put" /\ SameKey(calls[i], calls[j])
          /\ Resolved(calls[i]) /\ calls[i].seq < calls[j].seq
          /\ ~RemovedBetween(i, j) /\ StoreAnswered(calls[j]) )
        => FailedWith(calls[j], "ConcurrentUpdateException")

\* C5: remove called with the key attributes plus further attributes is
\* accepted and dispatches a conditional delete whose preconditions are an
\* equality check on each further attribute.
KeyNames(t) == {Table(t).hash_key_name, Table(t).range_key_name} \ {NoName}
C5_ConditionalRemove ==
    \A i \in 1..Len(calls) :
        ( /\ calls[i].op = "remove"
          /\ _extract_keys(Table(calls[i].table), calls[i].args).exc = "none"
          /\ DOMAIN calls[i].args # KeyNames(calls[i].table) )
        => /\ Dispatched(calls[i])
           /\ calls[i].req.op = "DeleteItem"
           /\ \A a \in DOMAIN calls[i].args \ KeyNames(calls[i].table) :
                 /\ a \in DOMAIN calls[i].req.expected
                 /\ calls[i].req.expected[a].Exists
                 /\ _unpack_val(calls[i].req.expected[a].Value).val = calls[i].args[a]

\* C8: for every supported native value v (integer, string, non-empty set
\* of integers, non-empty set of strings) _pack_val(v) succeeds and
\* _unpack_val(_pack_val(v)) == v.
Supported(v) ==
    \/ IsInt(v)
    \/ IsBasestring(v)
    \/ IsSet(v) /\ v.m # {} /\ ((\A x \in v.m : IsInt(x)) \/ (\A x \in v.m : IsBasestring(x)))
C8_RoundTrip ==
    Supported(val) =>
        /\ packed # NotYet => packed.exc = "none"
        /\ unpacked # NotYet => unpacked.exc = "none" /\ PyEq(unpacked.val, val)

\* C6: when the transport reports a failure for a dispatched call, the
\* caller's handle ends on its failure path: it is never resolved with a
\* success value.
C6_FailurePath ==
    \A i \in Completed :
        calls[i].error => \A k \in 1..Len(calls[i].events) : calls[i].events[k].kind = "raise"

\* C9: the Scan request of a scan builder on which gt(v) or lt(v) has been
\* called carries the filter made of the latest comparator and the packed
\* bound, for every bound v; the filter is absent only when neither was
\* called.
C9_ScanFilter ==
    \A i \in 1..Len(calls) :
        (calls[i].op = "scan" /\ Dispatched(calls[i])) =>
            IF calls[i].args._comp = "None"
            THEN calls[i].req.scan_filter = NoFilter
            ELSE /\ calls[i].req.scan_filter.ComparisonOperator = calls[i].args._comp
                 /\ Len(calls[i].req.scan_filter.AttributeValueList) = 1
                 /\ PyEq(_unpack_val(calls[i].req.scan_filter.AttributeValueList[1]).val,
                         calls[i].args._scan)

\* C2: the handle of every call that was dispatched is resolved exactly
\* once, by a value or by a failure, when the transport reports completion
\* (success or failure), and not before.
C2_ResolvedOnce ==
    \A i \in 1..Len(calls) :
        /\ calls[i].state = "done" => Len(calls[i].events) = 1
        /\ calls[i].state # "done" => calls[i].events = <<>>
C2_Witness ==
    \E i \in Completed :
        calls[i].op = "multi_write" /\ calls[i].error /\ Len(calls[i].events) = 1

\* C3: a BatchWriteItem request from multi_write or multi_delete carries at
\* most 25 operations over all its tables; the call dispatches when the
\* combined count is <= 25 and fails LimitExceeded without a request when it
\* is >= 26, whatever the order in which the tables are visited.
Combined(batches) ==
    LET RECURSIVE Sum(_)
        Sum(T) == IF T = {} THEN 0
                  ELSE LET t == CHOOSE x \in T : TRUE IN
                       Len(batches[t]) + Sum(T \ {t}) IN
    Sum(DOMAIN batches)
C3_BatchCeiling ==
    \A i \in 1..Len(calls) :
        calls[i].op \in {"multi_write", "multi_delete"} =>
            /\ Dispatched(calls[i]) =>
                  /\ calls[i].req.op = "BatchWriteItem"
                  /\ Combined(calls[i].req.RequestItems) <= 25
                  /\ Combined(calls[i].req.RequestItems) = Combined(calls[i].args.tables)
            /\ Combined(calls[i].args.tables) <= 25 => Dispatched(calls[i])
            /\ Combined(calls[i].args.tables) >= 26 =>
                  calls[i].exc = LimitExceeded /\ calls[i].req = NoReq
C3_Witness ==
    \E i \in 1..Len(calls) :
        /\ calls[i].op = "multi_write" /\ DOMAIN calls[i].args.tables = _tables
        /\ Len(calls[i].args.tables["users"]) = 13
        /\ Len(calls[i].args.tables["events"]) = 13
        /\ calls[i].exc = LimitExceeded

\* C4: a query builder invoked before gt or lt fails with the
\* not-configured error and no request; invoked after gt(v) or lt(v), for
\* any bound v (0 and "" included), it dispatches one Query; a scan builder
\* always dispatches one Scan.
C4_BuilderInvocation ==
    \A i \in 1..Len(calls) :
        /\ calls[i].op = "query" =>
              IF calls[i].args._comp = "None"
              THEN calls[i].exc = NotConfigured /\ calls[i].req = NoReq
              ELSE Dispatched(calls[i]) /\ calls[i].req.op = "Query"
        /\ calls[i].op = "scan" => Dispatched(calls[i]) /\ calls[i].req.op = "Scan"
C4_Witness ==
    \E i \in 1..Len(calls) :
        /\ calls[i].op = "query" /\ calls[i].args._comp = "GT"
        /\ calls[i].args._range = IntV(0) /\ calls[i].req.op = "Query"

\* C7: a table operation given a dict without the hash key, without a
\* declared range key, with a key of the wrong type, or (get, batch_get)
\* with a non-key attribute raises that failure synchronously and hands
\* nothing to the transport.
TypeOk(type, v) == (type = "int" => IsInt(v)) /\ (type = "str" => IsBasestring(v))
LocalFailures(t, kw, keysonly) ==
    (IF Table(t).hash_key_name \notin DOMAIN kw THEN {MissingHashKey} ELSE {})
    \cup (IF /\ Table(t).hash_key_name \in DOMAIN kw
             /\ ~TypeOk(Table(t).hash_key_type, kw[Table(t).hash_key_name])
          THEN {TypeMismatch} ELSE {})
    \cup (IF Table(t).range_key_name # NoName /\ Table(t).range_key_name \notin DOMAIN kw
          THEN {MissingRangeKey} ELSE {})
    \cup (IF /\ Table(t).range_key_name \in DOMAIN kw
             /\ ~TypeOk(Table(t).range_key_type, kw[Table(t).range_key_name])
          THEN {TypeMismatch} ELSE {})
    \cup (IF keysonly /\ ~(DOMAIN kw \subseteq KeyNames(t)) THEN {NotSupported} ELSE {})
C7_LocalErrors ==
    \A i \in 1..Len(calls) :
        /\ calls[i].op \in {"get", "put", "update", "increment", "remove"} =>
              LET fails == LocalFailures(calls[i].table, calls[i].args, calls[i].op = "get") IN
              fails # {} =>
                  /\ calls[i].exc \in fails /\ calls[i].state = "raised"
                  /\ calls[i].req = NoReq /\ calls[i].events = <<>>
        /\ calls[i].op = "batch_get" =>
              LET fails == UNION {LocalFailures(calls[i].table, calls[i].args[k], TRUE) :
                                    k \in 1..Len(calls[i].args)} IN
              fails # {} =>
                  /\ calls[i].exc \in fails /\ calls[i].state = "raised"
                  /\ calls[i].req = NoReq /\ calls[i].events = <<>>
C7_Witness ==
    \E i \in 1..Len(calls) :
        /\ calls[i].op = "get" /\ calls[i].args = [id |-> StrV("x")]
        /\ calls[i].exc = TypeMismatch /\ calls[i].req = NoReq

\* C10: whatever the order in which the transport completes a set of
\* increments of one attribute of one key, the stored attribute is the sum
\* of the increments applied, and each call resolves with the values as they
\* were right after its own increment (5 then 3 resolve with 5 and 8).
RECURSIVE AppliedSum(_, _)
AppliedSum(k, i) ==
    IF i > Len(calls) THEN 0
    ELSE (IF i \in Completed /\ Resolved(calls[i]) /\ calls[i].seq <= k
          THEN calls[i].args.counter.n ELSE 0)
         + AppliedSum(k, i + 1)
C10_NoLostUpdate ==
    /\ StoredNumber("users", _key(IntV(1), None).val, "counter") = AppliedSum(Len(calls), 1)
    /\ \A i \in Completed :
          /\ StoreAnswered(calls[i]) => Resolved(calls[i])
          /\ Resolved(calls[i]) =>
                /\ calls[i].events[1].value.counter = IntV(AppliedSum(calls[i].seq, 1))
                /\ calls[i].events[1].value.id = IntV(1)
C10_Witness ==
    \E i, j \in Completed :
        /\ i < j /\ calls[j].seq < calls[i].seq
        /\ calls[j].args.counter = IntV(5) /\ calls[i].args.counter = IntV(3)
        /\ Resolved(calls[j]) /\ calls[j].events[1].value.counter = IntV(5)
        /\ Resolved(calls[i]) /\ calls[i].events[1].value.counter = IntV(8)

\* C11: mass_write with n items dispatches, for every n <= 25, one
\* BatchWriteItem that holds n Put operations, the packed items in their
\* order, under this table and no other; for every n >= 26 it raises the
\* 25-item RuntimeError synchronously and hands nothing to the transport.
C11_MassWriteCeiling ==
    \A i \in 1..Len(calls) :
        calls[i].op = "mass_write" =>
            LET items == calls[i].args
                n == Len(items) IN
            /\ n <= 25 =>
                  /\ Dispatched(calls[i]) /\ calls[i].req.op = "BatchWriteItem"
                  /\ DOMAIN calls[i].req.RequestItems = {calls[i].table}
                  /\ Len(calls[i].req.RequestItems[calls[i].table]) = n
                  /\ \A k \in 1..n :
                        LET o == calls[i].req.RequestItems[calls[i].table][k] IN
                        /\ o.kind = "PutRequest"
                        /\ DOMAIN o.Item = DOMAIN items[k]
                        /\ \A a \in DOMAIN items[k] :
                              o.Item[a] = IF IsInt(items[k][a])
                                          THEN Wire("N", StrV(ToString(items[k][a].n)))
                                          ELSE Wire("S", items[k][a])
            /\ n >= 26 =>
                  /\ calls[i].exc = LimitExceeded /\ calls[i].state = "raised"
                  /\ calls[i].req = NoReq /\ calls[i].events = <<>>
C11_Witness ==
    \E i \in Completed :
        /\ calls[i].op = "mass_write" /\ Len(calls[i].args) = 25
        /\ Len(calls[i].req.RequestItems[calls[i].table]) = 25
        /\ Resolved(calls[i])

\* C12: a failure the store reports for a call is delivered as a
\* ConcurrentUpdateException (ConcurrencyConflict) exactly when its __type is
\* the conditional-check failure, and otherwise as the error kind of the
\* operation: PutException for put, RemoveException for remove,
\* QueryException for query, ScanException for scan, an update error for
\* update and increment, a batch-write error for the batch writes; the
\* generic DynamoException is left to the other operations.
ErrorKindOf(op) ==
    CASE op = "put" -> "PutException"
      [] op = "remove" -> "RemoveException"
      [] op = "query" -> "QueryException"
      [] op = "scan" -> "ScanException"
      [] op \in {"update", "increment"} -> "UpdateException"
      [] op \in {"mass_write", "multi_write", "multi_delete"} -> "BatchWriteException"
      [] OTHER -> "DynamoException"
C12_ErrorKinds ==
    \A i \in Completed :
        (calls[i].error /\ StoreAnswered(calls[i])) =>
            IF HasConditionalMarker(calls[i].response.d.__type)
            THEN FailedWith(calls[i], "ConcurrentUpdateException")
            ELSE FailedWith(calls[i], ErrorKindOf(calls[i].op))

\* C13: for every content of the store, hash value x, bound b and sequence
\* of gt/lt calls that ends in gt(b) (lt(b)), the invoked query builder
\* dispatches a Query for hash x with the comparator and the bound of that
\* last call, and resolves to exactly the stored items of hash x whose range
\* value is > b (< b), each once, ordered by range value in the direction
\* asked for.
Meets(n, comp, b) == IF comp = "GT" THEN n > b ELSE n < b
Wanted(told) ==
    {it \in store["events"] :
        /\ it["owner"].val.s = told.key.s
        /\ Meets(PyInt(it["ts"].val.s), told.comp, told.bound.n)}
AsStored(v) == JsonItem(_pack(v, NoFirst(v)).val)
C13_QueryResult ==
    \A i \in 1..Len(calls) :
        (calls[i].op = "query" /\ calls[i].args.comp # "None") =>
            /\ Dispatched(calls[i]) /\ calls[i].req.op = "Query"
            /\ calls[i].req.key = Wire("S", calls[i].args.key)
            /\ calls[i].req.range_key_conditions
                  = Condition(Wire("N", StrV(ToString(calls[i].args.bound.n))),
                              calls[i].args.comp)
            /\ (i \in Completed /\ ~calls[i].error) =>
                  /\ Resolved(calls[i])
                  /\ LET items == calls[i].events[1].value IN
                     /\ Len(items) = Cardinality(Wanted(calls[i].args))
                     /\ {AsStored(items[k]) : k \in 1..Len(items)} = Wanted(calls[i].args)
                     /\ \A k, l \in 1..Len(items) :
                           k < l => IF calls[i].args.forward
                                    THEN items[k]["ts"].n < items[l]["ts"].n
                                    ELSE items[k]["ts"].n > items[l]["ts"].n
C13_Witness ==
    \E i \in Completed :
        /\ calls[i].op = "query" /\ Resolved(calls[i])
        /\ calls[i].args.comp = "GT" /\ calls[i].args.bound = IntV(0)
        /\ qc._range = IntV(0) /\ ~calls[i].args.forward
        /\ Len(calls[i].events[1].value) = 2
        /\ Cardinality(store["events"]) = 4

\* C14: the request a query builder or a scan builder dispatches carries
\* the store's forward/backward flag, and the flag is the direction of the
\* caller's latest asc()/desc() call (forward when neither was called).  A
\* request without the flag is read by the store as forward.
ForwardFlag(req) ==
    IF "scan_index_forward" \in DOMAIN req THEN req.scan_index_forward ELSE TRUE
C14_Direction ==
    \A i \in 1..Len(calls) :
        (calls[i].op \in {"query", "scan"} /\ Dispatched(calls[i])) =>
            ForwardFlag(calls[i].req) = calls[i].args.forward

\* C17: a scan builder on which limit(n) was called dispatches a Scan whose
\* limit is the n of the latest limit call, whatever else was called on it
\* and whatever the store holds, and resolves to a sequence of at most n
\* items, each of them an item of the table.
C17_ScanLimit ==
    \A i \in 1..Len(calls) :
        (calls[i].op = "scan" /\ calls[i].args.limit # None) =>
            /\ Dispatched(calls[i]) /\ calls[i].req.op = "Scan"
            /\ calls[i].req.limit = calls[i].args.limit
            /\ (i \in Completed /\ ~calls[i].error) =>
                  /\ Resolved(calls[i])
                  /\ Len(calls[i].events[1].value) <= calls[i].args.limit.n
                  /\ \A k \in 1..Len(calls[i].events[1].value) :
                        AsStored(calls[i].events[1].value[k]) \in store[calls[i].table]
C17_Witness ==
    \E i \in Completed :
        /\ calls[i].op = "scan" /\ calls[i].args.limit = IntV(2)
        /\ calls[i].args.comp = "None"
        /\ Cardinality(store["users"]) = 3
        /\ Resolved(calls[i]) /\ Len(calls[i].events[1].value) = 2

\* C15: multi_delete given a key spec that holds an attribute besides the
\* key attributes of its table raises synchronously and hands nothing to
\* the transport, the failure being the "can't be handled" RuntimeError
\* unless a missing or mistyped key or the 25-item limit is met as well;
\* when every spec holds exactly the key attributes it dispatches one
\* BatchWriteItem with one Delete operation per spec, under the table the
\* spec was given for, keyed by the hash key (and range key) of that table.
Tagged(v) == IF IsInt(v) THEN Wire("N", StrV(ToString(v.n))) ELSE Wire("S", v)
HeldUnder(t, kwargs) ==
    {it \in store[t] : \A a \in KeyNames(t) : it[a] = JsonWire(Tagged(kwargs[a]))}
C16_GetResult ==
    \A i \in Completed :
        (calls[i].op = "get" /\ ~calls[i].error) =>
            IF HeldUnder(calls[i].table, calls[i].args) = {}
            THEN calls[i].events = <<CallbackEv(None)>>
            ELSE /\ Resolved(calls[i])
                 /\ calls[i].events[1].value # None
                 /\ AsStored(calls[i].events[1].value)
                       \in HeldUnder(calls[i].table, calls[i].args)
                 /\ \A a \in KeyNames(calls[i].table) :
                       PyEq(calls[i].events[1].value[a], calls[i].args[a])
C16_Witness ==
    \E i \in Completed :
        /\ calls[i].op = "get" /\ calls[i].table = "events" /\ Resolved(calls[i])
        /\ calls[i].events[1].value # None
        /\ DOMAIN calls[i].events[1].value = {"owner", "ts", "name"}
        /\ calls[i].events[1].value["ts"] = IntV(1)

\* C18: _pack_val raises ValueError and yields no wire value for the empty
\* set, for every set that holds both integers and strings, whichever
\* member the loop visits first, and for every value that is neither an
\* integer, a string nor a set.
Mixed(v) ==
    /\ IsSet(v)
    /\ \E x \in v.m : IsInt(x)
    /\ \E x \in v.m : IsBasestring(x)
NotPackable(v) == (IsSet(v) /\ v.m = {}) \/ Mixed(v) \/ ~(IsInt(v) \/ IsBasestring(v) \/ IsSet(v))
C18_PackRejects ==
    (NotPackable(val) /\ packed # NotYet) =>
        /\ packed.exc = "ValueError" /\ packed.val = None
        /\ unpacked = NotYet
C18_Witness ==
    /\ val = SetV({IntV(1), StrV("a"), StrV("b")})
    /\ packed.exc = "ValueError"

\* C19: when the store answers a put of an item with key (h, r) on the
\* table with a range key, the put succeeds and the item is stored if the
\* store held no item with exactly that hash and range value, items of the
\* same hash and another range value notwithstanding, and it fails on the
\* store's conditional-check failure, the store unchanged, exactly if it
\* held one; on the table without a range key the same goes for the hash
\* value alone.
PutAnswered(i) ==
    /\ i \in Pending /\ calls[i].op = "put"
    /\ Len(calls') >= i /\ StoreAnswered(calls'[i])
C19_PutKey ==
    [][\A i \in 1..Len(calls) :
          PutAnswered(i) =>
              IF HeldUnder(calls[i].table, calls[i].args) = {}
              THEN /\ Resolved(calls'[i])
                   /\ store' = [store EXCEPT ![calls[i].table] =
                                    @ \cup {AsStored(calls[i].args)}]
              ELSE /\ calls'[i].error
                   /\ HasConditionalMarker(calls'[i].response.d.__type)
                   /\ Len(calls'[i].events) = 1 /\ calls'[i].events[1].kind = "raise"
                   /\ store' = store]_vars
C19_Witness ==
    \E i \in Completed :
        /\ calls[i].op = "put" /\ Resolved(calls[i])
        /\ calls[i].args = [owner |-> StrV("u"), ts |-> IntV(2)]
        /\ store["events"] = {AsStored([owner |-> StrV("u"), ts |-> IntV(1)]),
                              AsStored([owner |-> StrV("u"), ts |-> IntV(2)]),
                              AsStored([owner |-> StrV("x"), ts |-> IntV(1)])}

SchemaKeys(self) == {self.hash_key_name, self.range_key_name} \ {NoName}
C21_ExtractFrame ==
    /\ val # None =>
          /\ val.dicts.heap[Arg] = val.given
          /\ val.out.exc = "none" =>
                /\ val.out.rest = val.dicts.heap[val.dicts.data]
                /\ DOMAIN val.out.rest = DOMAIN val.given \ SchemaKeys(val.self)
                /\ \A k \in DOMAIN val.out.rest : val.out.rest[k] = val.given[k]
                /\ SchemaKeys(val.self) \subseteq DOMAIN val.given
                /\ val.out.hash_key = val.given[val.self.hash_key_name]
                /\ val.out.range_key
                      = IF val.self.range_key_name # NoName
                        THEN val.given[val.self.range_key_name] ELSE None
    /\ \A i \in 1..Len(calls) :
          (calls[i].op \in {"update", "increment"} /\ Dispatched(calls[i])) =>
              /\ DOMAIN calls[i].req.update_data
                    = DOMAIN calls[i].args \ KeyNames(calls[i].table)
              /\ DOMAIN calls[i].req.update_data \cap KeyNames(calls[i].table) = {}
C21_Witness ==
    /\ val # None
    /\ val.self = GenDynamoTable("int", "id", "str", "ts")
    /\ val.given = [id |-> IntV(1), ts |-> StrV("a"), name |-> SetV({StrV("a")})]
    /\ val.out.exc = "none"
    /\ val.out.rest = [name |-> SetV({StrV("a")})]
    /\ val.dicts.heap[Copy] = [name |-> SetV({StrV("a")})]

====
